---- MODULE Spec2Model ----
(***************************************************************************)
(* A model of the n8n OpenTelemetry / OpenInference instrumentation:       *)
(*   - tracing/openinference-mapper.js : the span-kind classifier          *)
(*   - tracing/tracing.js              : the initialization guard, the     *)
(*     workflow-run wrapper (processRunExecutionData) and the step-run     *)
(*     wrapper (runNode)                                                   *)
(* JavaScript strings are modelled as tuples of one-character strings so   *)
(* that lower-casing and regular-expression tests are computed, not        *)
(* assumed.                                                                *)
(***************************************************************************)
EXTENDS Integers, Sequences, FiniteSets, TLC

(***************************************************************************)
(* Bounds of the model.                                                    *)
(***************************************************************************)
MaxIdLen == 3

\* ------------------------------------------------------------------------
\* JavaScript values handed to the classifier
\* ------------------------------------------------------------------------
\* the value `undefined`, also the classifier's no-match result
Undefined == "undefined"

JsUndefined == [t |-> "undefined", v |-> <<>>]

JsNull == [t |-> "null", v |-> <<>>]

\* a non-zero number, e.g. 42
JsNumber == [t |-> "number", v |-> <<>>]

\* a plain object, e.g. {}
JsObject == [t |-> "object", v |-> <<>>]

JsString(chars) == [t |-> "string", v |-> chars]

\* typeof x
TypeOf(x) == IF x.t \in {"null", "array"} THEN "object" ELSE x.t

\* the truthiness of x, as `!x` or `x || y` sees it
Truthy(x) ==
  CASE x.t = "undefined" -> FALSE
    [] x.t = "null" -> FALSE
    [] x.t = "string" -> Len(x.v) > 0
    [] x.t = "boolean" -> x.v = <<"true">>
    [] OTHER -> TRUE

UpperLetters ==
  <<"A","B","C","D","E","F","G","H","I","J","K","L","M",
    "N","O","P","Q","R","S","T","U","V","W","X","Y","Z">>

LowerLetters ==
  <<"a","b","c","d","e","f","g","h","i","j","k","l","m",
    "n","o","p","q","r","s","t","u","v","w","x","y","z">>

\* the character class [a-z]
IsLowerLetter(c) == \E i \in 1..26 : LowerLetters[i] = c

\* String.prototype.toLowerCase, on one character
ToLowerChar(c) ==
  IF \E i \in 1..26 : UpperLetters[i] = c
  THEN LowerLetters[CHOOSE i \in 1..26 : UpperLetters[i] = c]
  ELSE c

\* String.prototype.toLowerCase
ToLowerCase(s) == [i \in 1..Len(s) |-> ToLowerChar(s[i])]

\* ------------------------------------------------------------------------
\* openinference-mapper.js
\* ------------------------------------------------------------------------
SPAN_KINDS ==
  {"LLM", "EMBEDDING", "CHAIN", "RETRIEVER", "RERANKER",
   "TOOL", "AGENT", "GUARDRAIL", "EVALUATOR", "PROMPT"}

EXACT_AGENT ==
  { <<"A", "g", "e", "n", "t">>,
     <<"A", "g", "e", "n", "t", "T", "o", "o", "l">> }

EXACT_LLM ==
  { <<"L", "m", "C", "h", "a", "t", "O", "p", "e", "n", "A", "i">>,
     <<"L", "m", "O", "p", "e", "n", "A", "i">>,
     <<"O", "p", "e", "n", "A", "i">>,
     <<"A", "n", "t", "h", "r", "o", "p", "i", "c">>,
     <<"G", "o", "o", "g", "l", "e", "G", "e", "m", "i", "n", "i">>,
     <<"G", "r", "o", "q">>,
     <<"P", "e", "r", "p", "l", "e", "x", "i", "t", "y">>,
     <<"L", "m", "C", "h", "a", "t", "A", "n", "t", "h", "r", "o", "p", "i", "c">>,
     <<"L", "m", "C", "h", "a", "t", "G", "o", "o", "g", "l", "e", "G", "e", "m", "i", "n", "i">>,
     <<"L", "m", "C", "h", "a", "t", "M", "i", "s", "t", "r", "a", "l", "C", "l", "o", "u", "d">>,
     <<"L", "m", "C", "h", "a", "t", "O", "p", "e", "n", "R", "o", "u", "t", "e", "r">>,
     <<"L", "m", "C", "h", "a", "t", "X", "A", "i", "G", "r", "o", "k">>,
     <<"O", "p", "e", "n", "A", "i", "A", "s", "s", "i", "s", "t", "a", "n", "t">> }

EXACT_EMBEDDING ==
  { <<"E", "m", "b", "e", "d", "d", "i", "n", "g", "s", "A", "w", "s", "B", "e", "d", "r", "o", "c", "k">>,
     <<"E", "m", "b", "e", "d", "d", "i", "n", "g", "s", "A", "z", "u", "r", "e", "O", "p", "e", "n", "A", "i">>,
     <<"E", "m", "b", "e", "d", "d", "i", "n", "g", "s", "C", "o", "h", "e", "r", "e">>,
     <<"E", "m", "b", "e", "d", "d", "i", "n", "g", "s", "G", "o", "o", "g", "l", "e", "G", "e", "m", "i", "n", "i">>,
     <<"E", "m", "b", "e", "d", "d", "i", "n", "g", "s", "G", "o", "o", "g", "l", "e", "V", "e", "r", "t", "e", "x">>,
     <<"E", "m", "b", "e", "d", "d", "i", "n", "g", "s", "H", "u", "g", "g", "i", "n", "g", "F", "a", "c", "e", "I", "n", "f", "e", "r", "e", "n", "c", "e">>,
     <<"E", "m", "b", "e", "d", "d", "i", "n", "g", "s", "M", "i", "s", "t", "r", "a", "l", "C", "l", "o", "u", "d">>,
     <<"E", "m", "b", "e", "d", "d", "i", "n", "g", "s", "O", "l", "l", "a", "m", "a">>,
     <<"E", "m", "b", "e", "d", "d", "i", "n", "g", "s", "O", "p", "e", "n", "A", "i">> }

EXACT_RETRIEVER ==
  { <<"R", "e", "t", "r", "i", "e", "v", "e", "r", "C", "o", "n", "t", "e", "x", "t", "u", "a", "l", "C", "o", "m", "p", "r", "e", "s", "s", "i", "o", "n">>,
     <<"R", "e", "t", "r", "i", "e", "v", "e", "r", "M", "u", "l", "t", "i", "Q", "u", "e", "r", "y">>,
     <<"R", "e", "t", "r", "i", "e", "v", "e", "r", "V", "e", "c", "t", "o", "r", "S", "t", "o", "r", "e">>,
     <<"R", "e", "t", "r", "i", "e", "v", "e", "r", "W", "o", "r", "k", "f", "l", "o", "w">>,
     <<"M", "e", "m", "o", "r", "y", "C", "h", "a", "t", "R", "e", "t", "r", "i", "e", "v", "e", "r">>,
     <<"V", "e", "c", "t", "o", "r", "S", "t", "o", "r", "e", "I", "n", "M", "e", "m", "o", "r", "y">>,
     <<"V", "e", "c", "t", "o", "r", "S", "t", "o", "r", "e", "I", "n", "M", "e", "m", "o", "r", "y", "I", "n", "s", "e", "r", "t">>,
     <<"V", "e", "c", "t", "o", "r", "S", "t", "o", "r", "e", "I", "n", "M", "e", "m", "o", "r", "y", "L", "o", "a", "d">>,
     <<"V", "e", "c", "t", "o", "r", "S", "t", "o", "r", "e", "M", "i", "l", "v", "u", "s">>,
     <<"V", "e", "c", "t", "o", "r", "S", "t", "o", "r", "e", "M", "o", "n", "g", "o", "D", "B", "A", "t", "l", "a", "s">>,
     <<"V", "e", "c", "t", "o", "r", "S", "t", "o", "r", "e", "P", "G", "V", "e", "c", "t", "o", "r">>,
     <<"V", "e", "c", "t", "o", "r", "S", "t", "o", "r", "e", "P", "i", "n", "e", "c", "o", "n", "e">>,
     <<"V", "e", "c", "t", "o", "r", "S", "t", "o", "r", "e", "P", "i", "n", "e", "c", "o", "n", "e", "I", "n", "s", "e", "r", "t">>,
     <<"V", "e", "c", "t", "o", "r", "S", "t", "o", "r", "e", "P", "i", "n", "e", "c", "o", "n", "e", "L", "o", "a", "d">>,
     <<"V", "e", "c", "t", "o", "r", "S", "t", "o", "r", "e", "Q", "d", "r", "a", "n", "t">>,
     <<"V", "e", "c", "t", "o", "r", "S", "t", "o", "r", "e", "S", "u", "p", "a", "b", "a", "s", "e">>,
     <<"V", "e", "c", "t", "o", "r", "S", "t", "o", "r", "e", "S", "u", "p", "a", "b", "a", "s", "e", "I", "n", "s", "e", "r", "t">>,
     <<"V", "e", "c", "t", "o", "r", "S", "t", "o", "r", "e", "S", "u", "p", "a", "b", "a", "s", "e", "L", "o", "a", "d">>,
     <<"V", "e", "c", "t", "o", "r", "S", "t", "o", "r", "e", "W", "e", "a", "v", "i", "a", "t", "e">>,
     <<"V", "e", "c", "t", "o", "r", "S", "t", "o", "r", "e", "Z", "e", "p">>,
     <<"V", "e", "c", "t", "o", "r", "S", "t", "o", "r", "e", "Z", "e", "p", "I", "n", "s", "e", "r", "t">>,
     <<"V", "e", "c", "t", "o", "r", "S", "t", "o", "r", "e", "Z", "e", "p", "L", "o", "a", "d">> }

EXACT_RERANKER ==
  { <<"R", "e", "r", "a", "n", "k", "e", "r", "C", "o", "h", "e", "r", "e">> }

EXACT_EVALUATOR ==
  { <<"S", "e", "n", "t", "i", "m", "e", "n", "t", "A", "n", "a", "l", "y", "s", "i", "s">>,
     <<"T", "e", "x", "t", "C", "l", "a", "s", "s", "i", "f", "i", "e", "r">>,
     <<"I", "n", "f", "o", "r", "m", "a", "t", "i", "o", "n", "E", "x", "t", "r", "a", "c", "t", "o", "r">>,
     <<"O", "u", "t", "p", "u", "t", "P", "a", "r", "s", "e", "r", "A", "u", "t", "o", "f", "i", "x", "i", "n", "g">> }

EXACT_GUARDRAIL ==
  { <<"G", "o", "o", "g", "l", "e", "P", "e", "r", "s", "p", "e", "c", "t", "i", "v", "e">>,
     <<"A", "w", "s", "R", "e", "k", "o", "g", "n", "i", "t", "i", "o", "n">> }

EXACT_CHAIN ==
  { <<"C", "h", "a", "i", "n", "L", "l", "m">>,
     <<"C", "h", "a", "i", "n", "R", "e", "t", "r", "i", "e", "v", "a", "l", "Q", "a">>,
     <<"C", "h", "a", "i", "n", "S", "u", "m", "m", "a", "r", "i", "z", "a", "t", "i", "o", "n">>,
     <<"T", "o", "o", "l", "W", "o", "r", "k", "f", "l", "o", "w">>,
     <<"T", "o", "o", "l", "E", "x", "e", "c", "u", "t", "o", "r">>,
     <<"M", "o", "d", "e", "l", "S", "e", "l", "e", "c", "t", "o", "r">>,
     <<"O", "u", "t", "p", "u", "t", "P", "a", "r", "s", "e", "r", "S", "t", "r", "u", "c", "t", "u", "r", "e", "d">>,
     <<"O", "u", "t", "p", "u", "t", "P", "a", "r", "s", "e", "r", "I", "t", "e", "m", "L", "i", "s", "t">>,
     <<"T", "e", "x", "t", "S", "p", "l", "i", "t", "t", "e", "r", "C", "h", "a", "r", "a", "c", "t", "e", "r", "T", "e", "x", "t", "S", "p", "l", "i", "t", "t", "e", "r">>,
     <<"T", "e", "x", "t", "S", "p", "l", "i", "t", "t", "e", "r", "R", "e", "c", "u", "r", "s", "i", "v", "e", "C", "h", "a", "r", "a", "c", "t", "e", "r", "T", "e", "x", "t", "S", "p", "l", "i", "t", "t", "e", "r">>,
     <<"T", "e", "x", "t", "S", "p", "l", "i", "t", "t", "e", "r", "T", "o", "k", "e", "n", "S", "p", "l", "i", "t", "t", "e", "r">>,
     <<"T", "o", "o", "l", "T", "h", "i", "n", "k">> }

INTERNAL_LOGIC ==
  { <<"I", "f">>,
     <<"S", "w", "i", "t", "c", "h">>,
     <<"S", "e", "t">>,
     <<"M", "o", "v", "e">>,
     <<"R", "e", "n", "a", "m", "e">>,
     <<"W", "a", "i", "t">>,
     <<"W", "a", "i", "t", "U", "n", "t", "i", "l">>,
     <<"F", "u", "n", "c", "t", "i", "o", "n">>,
     <<"F", "u", "n", "c", "t", "i", "o", "n", "I", "t", "e", "m">>,
     <<"C", "o", "d", "e">>,
     <<"N", "o", "O", "p">>,
     <<"E", "x", "e", "c", "u", "t", "e", "W", "o", "r", "k", "f", "l", "o", "w">>,
     <<"S", "u", "b", "w", "o", "r", "k", "f", "l", "o", "w", "T", "o">> }


\* Object.entries(EXACT_SETS), in insertion order
EXACT_SETS ==
  << [kind |-> "AGENT",     set |-> EXACT_AGENT],
     [kind |-> "LLM",       set |-> EXACT_LLM],
     [kind |-> "EMBEDDING", set |-> EXACT_EMBEDDING],
     [kind |-> "RETRIEVER", set |-> EXACT_RETRIEVER],
     [kind |-> "RERANKER",  set |-> EXACT_RERANKER],
     [kind |-> "EVALUATOR", set |-> EXACT_EVALUATOR],
     [kind |-> "GUARDRAIL", set |-> EXACT_GUARDRAIL],
     [kind |-> "CHAIN",     set |-> EXACT_CHAIN] >>

\* the literals of the regular expressions
W_trigger == <<"t", "r", "i", "g", "g", "e", "r">>

W_agent == <<"a", "g", "e", "n", "t">>

W_embedding == <<"e", "m", "b", "e", "d", "d", "i", "n", "g">>

W_retriev == <<"r", "e", "t", "r", "i", "e", "v">>

W_vectorstore == <<"v", "e", "c", "t", "o", "r", "s", "t", "o", "r", "e">>

W_rerank == <<"r", "e", "r", "a", "n", "k">>

W_lmchat == <<"l", "m", "c", "h", "a", "t">>

W_lm == <<"l", "m">>

W_chat == <<"c", "h", "a", "t">>

W_openai == <<"o", "p", "e", "n", "a", "i">>

W_anthropic == <<"a", "n", "t", "h", "r", "o", "p", "i", "c">>

W_gemini == <<"g", "e", "m", "i", "n", "i">>

W_mistral == <<"m", "i", "s", "t", "r", "a", "l">>

W_groq == <<"g", "r", "o", "q">>

W_cohere == <<"c", "o", "h", "e", "r", "e">>

W_tool == <<"t", "o", "o", "l">>

W_chain == <<"c", "h", "a", "i", "n">>

W_textsplitter == <<"t", "e", "x", "t", "s", "p", "l", "i", "t", "t", "e", "r">>

W_parser == <<"p", "a", "r", "s", "e", "r">>

W_memory == <<"m", "e", "m", "o", "r", "y">>

W_workflow == <<"w", "o", "r", "k", "f", "l", "o", "w">>

W_classif == <<"c", "l", "a", "s", "s", "i", "f">>

W_sentiment == <<"s", "e", "n", "t", "i", "m", "e", "n", "t">>

W_extract == <<"e", "x", "t", "r", "a", "c", "t">>

W_perspective == <<"p", "e", "r", "s", "p", "e", "c", "t", "i", "v", "e">>

W_rekognition == <<"r", "e", "k", "o", "g", "n", "i", "t", "i", "o", "n">>

W_moderation == <<"m", "o", "d", "e", "r", "a", "t", "i", "o", "n">>

W_guardrail == <<"g", "u", "a", "r", "d", "r", "a", "i", "l">>


\* one alternative of a pattern: the literal `lit` anywhere in the string
Sub(lit) == [lit |-> lit, start |-> FALSE, letter |-> FALSE]

\* the alternative ^lm[a-z]
LmLetter == [lit |-> W_lm, start |-> TRUE, letter |-> TRUE]

\* the rules with the LLM rule moved in front of the trigger rule
REGEX_RULES_LlmFirst ==
  << [kind |-> "LLM",       ci |-> TRUE,
      alts |-> {Sub(W_lmchat), LmLetter, Sub(W_chat), Sub(W_openai),
                Sub(W_anthropic), Sub(W_gemini), Sub(W_mistral),
                Sub(W_groq), Sub(W_cohere)}],
     [kind |-> "CHAIN",     ci |-> TRUE,  alts |-> {Sub(W_trigger)}],
     [kind |-> "AGENT",     ci |-> TRUE,  alts |-> {Sub(W_agent)}],
     [kind |-> "EMBEDDING", ci |-> TRUE,  alts |-> {Sub(W_embedding)}],
     [kind |-> "RETRIEVER", ci |-> TRUE,  alts |-> {Sub(W_retriev), Sub(W_vectorstore)}],
     [kind |-> "RERANKER",  ci |-> TRUE,  alts |-> {Sub(W_rerank)}],
     [kind |-> "TOOL",      ci |-> FALSE, alts |-> {Sub(W_tool)}],
     [kind |-> "CHAIN",     ci |-> TRUE,
      alts |-> {Sub(W_chain), Sub(W_textsplitter), Sub(W_parser),
                Sub(W_memory), Sub(W_workflow)}],
     [kind |-> "EVALUATOR", ci |-> TRUE,
      alts |-> {Sub(W_classif), Sub(W_sentiment), Sub(W_extract)}],
     [kind |-> "GUARDRAIL", ci |-> TRUE,
      alts |-> {Sub(W_perspective), Sub(W_rekognition), Sub(W_moderation),
                Sub(W_guardrail)}] >>

REGEX_RULES ==
  << [kind |-> "CHAIN",     ci |-> TRUE,  alts |-> {Sub(W_trigger)}],
     [kind |-> "AGENT",     ci |-> TRUE,  alts |-> {Sub(W_agent)}],
     [kind |-> "EMBEDDING", ci |-> TRUE,  alts |-> {Sub(W_embedding)}],
     [kind |-> "RETRIEVER", ci |-> TRUE,  alts |-> {Sub(W_retriev), Sub(W_vectorstore)}],
     [kind |-> "RERANKER",  ci |-> TRUE,  alts |-> {Sub(W_rerank)}],
     [kind |-> "LLM",       ci |-> TRUE,
      alts |-> {Sub(W_lmchat), LmLetter, Sub(W_chat), Sub(W_openai),
                Sub(W_anthropic), Sub(W_gemini), Sub(W_mistral),
                Sub(W_groq), Sub(W_cohere)}],
     [kind |-> "TOOL",      ci |-> FALSE, alts |-> {Sub(W_tool)}],
     [kind |-> "CHAIN",     ci |-> TRUE,
      alts |-> {Sub(W_chain), Sub(W_textsplitter), Sub(W_parser),
                Sub(W_memory), Sub(W_workflow)}],
     [kind |-> "EVALUATOR", ci |-> TRUE,
      alts |-> {Sub(W_classif), Sub(W_sentiment), Sub(W_extract)}],
     [kind |-> "GUARDRAIL", ci |-> TRUE,
      alts |-> {Sub(W_perspective), Sub(W_rekognition), Sub(W_moderation),
                Sub(W_guardrail)}] >>

\* does alternative a match string s (s already case-folded when the
\* pattern carries the i flag)
AltMatches(a, s) ==
  \E i \in 1..(Len(s) + 1) :
     /\ a.start => i = 1
     /\ i + Len(a.lit) - 1 <= Len(s)
     /\ SubSeq(s, i, i + Len(a.lit) - 1) = a.lit
     /\ a.letter => /\ i + Len(a.lit) <= Len(s)
                    /\ IsLowerLetter(s[i + Len(a.lit)])

\* rule.pattern.test(s)
RegexTest(rule, s) ==
  LET subject == IF rule.ci THEN ToLowerCase(s) ELSE s
  IN \E a \in rule.alts : AltMatches(a, subject)

\* step-type identifiers used as examples
Id_chatTrigger == <<"c", "h", "a", "t", "T", "r", "i", "g", "g", "e", "r">>

Id_ManualTrigger == <<"M", "a", "n", "u", "a", "l", "T", "r", "i", "g", "g", "e", "r">>

Id_UnknownCustomNode123 == <<"U", "n", "k", "n", "o", "w", "n", "C", "u", "s", "t", "o", "m", "N", "o", "d", "e", "1", "2", "3">>

Id_HttpRequest == <<"H", "t", "t", "p", "R", "e", "q", "u", "e", "s", "t">>

Id_If == <<"I", "f">>

Id_Schedule == <<"S", "c", "h", "e", "d", "u", "l", "e">>

Id_Cron == <<"C", "r", "o", "n">>

Id_Set == <<"S", "e", "t">>

Id_MyTOOL == <<"M", "y", "T", "O", "O", "L">>

Id_mytool == <<"m", "y", "t", "o", "o", "l">>

Id_Slack == <<"S", "l", "a", "c", "k">>

Id_ChatTriggerAgent == <<"C", "h", "a", "t", "T", "r", "i", "g", "g", "e", "r", "A", "g", "e", "n", "t">>

Id_OpenAi == <<"O", "p", "e", "n", "A", "i">>

\* the attribute bag handed to the classifier: `t` is the type of the bag
\* itself, cat and raw are its entries 'n8n.node.category' and
\* 'n8n.node.category_raw' (Undefined when the key is absent)
AttrBag(t, cat, raw) == [t |-> t, cat |-> cat, raw |-> raw]

\* nodeAttributes?.[key]
BagGet(bag, key) ==
  IF bag.t \in {"undefined", "null"} THEN Undefined
  ELSE IF key = "n8n.node.category" THEN bag.cat ELSE bag.raw

\* truthiness of a string-or-undefined scalar
ScalarTruthy(c) == c # Undefined /\ c # ""

\* categoryFallback with every identifier of Core Nodes outside INTERNAL_LOGIC
\* mapped to TOOL
categoryFallback_NoScheduling(type, category) ==
  CASE category = "Trigger Nodes" -> "CHAIN"
    [] category = "Transform Nodes" -> "CHAIN"
    [] category = "AI/LangChain Nodes" -> "CHAIN"
    [] category = "Core Nodes" ->
         IF type \in INTERNAL_LOGIC THEN "CHAIN" ELSE "TOOL"
    [] OTHER -> Undefined

categoryFallback(type, category) ==
  CASE category = "Trigger Nodes" -> "CHAIN"
    [] category = "Transform Nodes" -> "CHAIN"
    [] category = "AI/LangChain Nodes" -> "CHAIN"
    [] category = "Core Nodes" ->
         IF type \in INTERNAL_LOGIC THEN "CHAIN"
         ELSE IF type = Id_Schedule \/ type = Id_Cron THEN "CHAIN"
         ELSE "TOOL"
    [] OTHER -> Undefined

\* tier 1: the kind of the first exact set holding the identifier
ExactKind(original) ==
  LET hits == {i \in 1..Len(EXACT_SETS) : original \in EXACT_SETS[i].set}
  IN IF hits = {} THEN Undefined
     ELSE EXACT_SETS[CHOOSE i \in hits : \A j \in hits : i <= j].kind

\* tier 2 with the last matching rule winning
RegexKind_LastMatch(lower) ==
  LET hits == {i \in 1..Len(REGEX_RULES) : RegexTest(REGEX_RULES[i], lower)}
  IN IF hits = {} THEN Undefined
     ELSE REGEX_RULES[CHOOSE i \in hits : \A j \in hits : i >= j].kind

\* tier 2: the kind of the first rule whose pattern matches
RegexKind(lower) ==
  LET hits == {i \in 1..Len(REGEX_RULES) : RegexTest(REGEX_RULES[i], lower)}
  IN IF hits = {} THEN Undefined
     ELSE REGEX_RULES[CHOOSE i \in hits : \A j \in hits : i <= j].kind

\* the tiers with the pattern rules consulted before the exact-match table
ClassifyString_RegexFirst(original, nodeAttributes) ==
  LET exact == ExactKind(original)
      byRule == RegexKind(ToLowerCase(original))
      category ==
        IF ScalarTruthy(BagGet(nodeAttributes, "n8n.node.category"))
        THEN BagGet(nodeAttributes, "n8n.node.category")
        ELSE BagGet(nodeAttributes, "n8n.node.category_raw")
      fromCategory == categoryFallback(original, category)
  IN IF byRule # Undefined THEN byRule
     ELSE IF exact # Undefined THEN exact
     ELSE IF ScalarTruthy(fromCategory) THEN fromCategory
     ELSE Undefined

\* tiers 1 to 4, for an identifier that passed the tier-0 test
ClassifyString(original, nodeAttributes) ==
  LET exact == ExactKind(original)
      lower == ToLowerCase(original)
      byRule == RegexKind(lower)
      category ==
        IF ScalarTruthy(BagGet(nodeAttributes, "n8n.node.category"))
        THEN BagGet(nodeAttributes, "n8n.node.category")
        ELSE BagGet(nodeAttributes, "n8n.node.category_raw")
      fromCategory == categoryFallback(original, category)
  IN IF exact # Undefined THEN exact
     ELSE IF byRule # Undefined THEN byRule
     ELSE IF ScalarTruthy(fromCategory) THEN fromCategory
     ELSE Undefined

\* the classifier without its tier-0 test: a value that is not a string
\* reaches original.toLowerCase() and raises a TypeError
mapNodeToSpanKind_NoTypeTest(nodeType, nodeAttributes) ==
  IF TypeOf(nodeType) # "string" THEN "TypeError"
  ELSE ClassifyString(nodeType.v, nodeAttributes)

mapNodeToSpanKind(nodeType, nodeAttributes) ==
  IF ~Truthy(nodeType) \/ TypeOf(nodeType) # "string" THEN Undefined
  ELSE ClassifyString(nodeType.v, nodeAttributes)

\* ------------------------------------------------------------------------
\* tracing.js: configuration read from the environment by initializeTracing
\* ------------------------------------------------------------------------
MaxLoads == 2

MaxRuns == 2

MaxSteps == 1

MaxHttp == 1

\* the defaults of the envBool(...) calls
DefaultConfig ==
  [ ONLY_WORKFLOW_SPANS          |-> FALSE,
    MAP_OPENINFERENCE_SPAN_KINDS |-> TRUE,
    SPAN_KIND_IN_NODE_SPAN_NAME  |-> FALSE,
    USE_NODE_NAME_SPAN           |-> TRUE,
    DYNAMIC_WORKFLOW_TRACE_NAME  |-> FALSE,
    INSTRUMENT_LANGCHAIN         |-> TRUE,
    CAPTURE_IO                   |-> TRUE,
    MAX_IO_CHARS                 |-> 12000 ]

\* what one evaluation of the module body finds: the configuration in the
\* environment, whether require('n8n-core') and the LangChain packages
\* resolve, and where initializeTracing throws ("config": getEnv rejects
\* TRACING_LOG_LEVEL; "sdk": building or starting the SDK fails)
Boot(conf, n8nCore, langchain, failAt) ==
  [conf |-> conf, n8nCore |-> n8nCore, langchain |-> langchain, failAt |-> failAt]

\* the healthy process with the default configuration
DefaultBoot == Boot(DefaultConfig, TRUE, TRUE, "none")

\* the processes considered (TRACING_WORKFLOW_SPAN_NAME_PATTERN is unset)
Boots ==
  { DefaultBoot,
    Boot([DefaultConfig EXCEPT !.CAPTURE_IO = FALSE], TRUE, TRUE, "none"),
    Boot([DefaultConfig EXCEPT !.ONLY_WORKFLOW_SPANS = TRUE,
                               !.MAP_OPENINFERENCE_SPAN_KINDS = FALSE], TRUE, TRUE, "none"),
    Boot([DefaultConfig EXCEPT !.MAP_OPENINFERENCE_SPAN_KINDS = FALSE,
                               !.MAX_IO_CHARS = 10], TRUE, TRUE, "none"),
    Boot([DefaultConfig EXCEPT !.USE_NODE_NAME_SPAN = FALSE,
                               !.SPAN_KIND_IN_NODE_SPAN_NAME = TRUE,
                               !.DYNAMIC_WORKFLOW_TRACE_NAME = TRUE], TRUE, FALSE, "none"),
    Boot([DefaultConfig EXCEPT !.INSTRUMENT_LANGCHAIN = FALSE], FALSE, TRUE, "none"),
    Boot(DefaultConfig, TRUE, TRUE, "config"),
    Boot(DefaultConfig, TRUE, TRUE, "sdk") }

VARIABLES
  globalFlag,    \* global.__n8nTracingInitialized
  envFlag,       \* process.env.__N8N_TRACING_INITIALIZED === 'true'
  processFlag,   \* process.__n8nOtelSDKStarted
  loads,         \* how many times the module body has been evaluated
  wrapDepth,     \* for each engine entry point, how many wrappers are stacked on it
  initLog,       \* the initialization steps performed, in order
  cfg,           \* the configuration captured by the installed wrappers
  spans,         \* every span created so far; a span's id is its index
  run,           \* per workflow run: the state of the wrapper invocation
  step,          \* per workflow run: the state of its current runNode invocation
  nodeTypeArg,   \* classifier check: the step-type argument
  nodeAttrsArg,  \* classifier check: the attribute bag argument
  mapped,        \* classifier check: the classifier's result
  ioCap,         \* truncation check: MAX_IO_CHARS
  ioArg,         \* truncation check: the argument of truncateIO
  ioOut,         \* truncation check: the string truncateIO returned
  settingsArg,   \* flattening check: the workflow's settings object
  settingsFlat,  \* flattening check: the attributes derived from it
  extractArg,    \* extractor check: the execution data, or the result, of a step
  extractOut,    \* extractor check: which extractor ran and what it returned
  proc           \* the process: its fault handlers, the flush, the exit

guardVars == <<globalFlag, envFlag, processFlag, loads, wrapDepth, initLog, cfg>>

traceVars == <<spans, run, step>>

classifyVars == <<nodeTypeArg, nodeAttrsArg, mapped>>

payloadVars == <<ioCap, ioArg, ioOut>>

flattenVars == <<settingsArg, settingsFlat>>

extractVars == <<extractArg, extractOut>>

\* the variables of the checks of pure functions
pureVars == <<classifyVars, payloadVars, flattenVars, extractVars>>

processVars == <<proc>>

vars == <<globalFlag, envFlag, processFlag, loads, wrapDepth, initLog, cfg,
          spans, run, step, nodeTypeArg, nodeAttrsArg, mapped,
          ioCap, ioArg, ioOut, settingsArg, settingsFlat,
          extractArg, extractOut, proc>>

\* no call of the classifier is being checked
ClassifyIdle ==
  /\ nodeTypeArg = JsUndefined
  /\ nodeAttrsArg = [t |-> "undefined", cat |-> Undefined, raw |-> Undefined]
  /\ mapped = "pending"

\* no call of truncateIO is being checked
PayloadIdle ==
  /\ ioCap = 0
  /\ ioArg = JsUndefined
  /\ ioOut = [done |-> FALSE, s |-> <<>>]

\* no flattening is being checked
FlattenIdle ==
  /\ settingsArg = JsObject
  /\ settingsFlat = [done |-> FALSE, attrs |-> <<>>]

\* no call of an extractor is being checked
ExtractIdle ==
  /\ extractArg = JsUndefined
  /\ extractOut = [by |-> "none", value |-> JsUndefined]

\* the process is up: no fault was raised, nothing was logged
IdleProcess ==
  [pc |-> "up", exitCode |-> 0, flush |-> "none", log |-> <<>>]

ProcessIdle == proc = IdleProcess

EntryPoints == {"processRunExecutionData", "runNode"}

Runs == 1..MaxRuns

\* ------------------------------------------------------------------------
\* The initialization guard and initializeTracing
\* ------------------------------------------------------------------------
\* the guard computed without the three flags: every load initializes
ALREADY_INITIALIZED_Never == FALSE

ALREADY_INITIALIZED == globalFlag \/ envFlag \/ processFlag

\* setupN8nOpenTelemetry: each entry point is replaced by a wrapper around
\* whatever is installed at that moment; require('n8n-core') failing is
\* caught and leaves the entry points alone
setupN8nOpenTelemetry(depth, n8nCore) ==
  IF n8nCore THEN [e \in EntryPoints |-> depth[e] + 1] ELSE depth

\* initializeTracing with the SDK configured and started before the engine
\* entry points are replaced
InitSteps_PipelineFirst(conf, n8nCore, langchain, failAt) ==
  IF failAt = "config" THEN <<>>
  ELSE
    (IF conf.ONLY_WORKFLOW_SPANS THEN <<>> ELSE <<"autoInstrumentations">>)
    \o (IF failAt = "sdk" THEN <<>>
        ELSE <<"sdkStart">>
             \o (IF n8nCore THEN <<"wrappersInstalled">> ELSE <<"wrappersFailed">>)
             \o <<"processHandlers">>
             \o (IF ~conf.INSTRUMENT_LANGCHAIN THEN <<>>
                 ELSE IF langchain THEN <<"langchain">>
                 ELSE <<"langchainFailed">>))

\* initializeTracing with the LangChain instrumentation attempted before the
\* SDK is started
InitSteps_LangchainFirst(conf, n8nCore, langchain, failAt) ==
  IF failAt = "config" THEN <<>>
  ELSE
    (IF conf.ONLY_WORKFLOW_SPANS THEN <<>> ELSE <<"autoInstrumentations">>)
    \o (IF n8nCore THEN <<"wrappersInstalled">> ELSE <<"wrappersFailed">>)
    \o <<"processHandlers">>
    \o (IF ~conf.INSTRUMENT_LANGCHAIN THEN <<>>
        ELSE IF langchain THEN <<"langchain">>
        ELSE <<"langchainFailed">>)
    \o (IF failAt = "sdk" THEN <<>> ELSE <<"sdkStart">>)

\* the steps initializeTracing performs, in order, up to the point where
\* it throws (failAt) or to its end
InitSteps(conf, n8nCore, langchain, failAt) ==
  IF failAt = "config" THEN <<>>
  ELSE
    (IF conf.ONLY_WORKFLOW_SPANS THEN <<>> ELSE <<"autoInstrumentations">>)
    \o (IF n8nCore THEN <<"wrappersInstalled">> ELSE <<"wrappersFailed">>)
    \o <<"processHandlers">>
    \o (IF failAt = "sdk" THEN <<>>
        ELSE <<"sdkStart">>
             \o (IF ~conf.INSTRUMENT_LANGCHAIN THEN <<>>
                 ELSE IF langchain THEN <<"langchain">>
                 ELSE <<"langchainFailed">>))

\* a module body that sets the three flags only when initializeTracing
\* has returned
Load_FlagsAfterSuccess(boot) ==
  /\ loads < MaxLoads
  /\ loads' = loads + 1
  /\ IF ALREADY_INITIALIZED
     THEN UNCHANGED <<globalFlag, envFlag, processFlag, wrapDepth, initLog, cfg>>
     ELSE /\ globalFlag' = (boot.failAt = "none")
          /\ envFlag' = (boot.failAt = "none")
          /\ processFlag' = (boot.failAt = "none")
          /\ initLog' = initLog \o InitSteps(boot.conf, boot.n8nCore,
                                             boot.langchain, boot.failAt)
          /\ wrapDepth' = IF boot.failAt = "config" THEN wrapDepth
                          ELSE setupN8nOpenTelemetry(wrapDepth, boot.n8nCore)
          /\ cfg' = IF boot.failAt = "config" \/ ~boot.n8nCore
                    THEN cfg ELSE boot.conf
  /\ UNCHANGED traceVars
  /\ UNCHANGED pureVars
  /\ UNCHANGED processVars

\* One evaluation of the module body (the module is loaded once more).
Load(boot) ==
  /\ loads < MaxLoads
  /\ loads' = loads + 1
  /\ IF ALREADY_INITIALIZED
     THEN UNCHANGED <<globalFlag, envFlag, processFlag, wrapDepth, initLog, cfg>>
     ELSE /\ globalFlag' = TRUE
          /\ envFlag' = TRUE
          /\ processFlag' = TRUE
          /\ initLog' = initLog \o InitSteps(boot.conf, boot.n8nCore,
                                             boot.langchain, boot.failAt)
          /\ wrapDepth' = IF boot.failAt = "config" THEN wrapDepth
                          ELSE setupN8nOpenTelemetry(wrapDepth, boot.n8nCore)
          /\ cfg' = IF boot.failAt = "config" \/ ~boot.n8nCore
                    THEN cfg ELSE boot.conf
  /\ UNCHANGED traceVars
  /\ UNCHANGED pureVars
  /\ UNCHANGED processVars

\* ------------------------------------------------------------------------
\* tracing.js: span names
\* ------------------------------------------------------------------------
N_workflow_execute == <<"n", "8", "n", ".", "w", "o", "r", "k", "f", "l", "o", "w", ".", "e", "x", "e", "c", "u", "t", "e">>

N_workflow_request == <<"n", "8", "n", ".", "w", "o", "r", "k", "f", "l", "o", "w", ".", "r", "e", "q", "u", "e", "s", "t">>

N_node_execute == <<"n", "8", "n", ".", "n", "o", "d", "e", ".", "e", "x", "e", "c", "u", "t", "e">>

N_unknown_node == <<"u", "n", "k", "n", "o", "w", "n", "-", "n", "o", "d", "e">>

N_wf == <<"w", "f">>

N_workflow == <<"w", "o", "r", "k", "f", "l", "o", "w">>

N_exec == <<"e", "x", "e", "c">>

N_node_prefix == <<"n", "8", "n", ".", "n", "o", "d", "e", ".">>

N_execute_suffix == <<".", "e", "x", "e", "c", "u", "t", "e">>

S_unknown == <<"u", "n", "k", "n", "o", "w", "n">>

S_wf1 == <<"w", "f", "1">>

S_Demo == <<"D", "e", "m", "o">>

S_My_Flow == <<"M", "y", " ", "F", "l", "o", "w">>

S_42 == <<"4", "2">>

S_POST == <<"P", "O", "S", "T">>

S_Get == <<"G", "e", "t">>

S_AI_Agent == <<"A", "I", " ", "A", "g", "e", "n", "t">>

KindChars(kind) ==
  CASE kind = "LLM" -> <<"L", "L", "M">>
    [] kind = "EMBEDDING" -> <<"E", "M", "B", "E", "D", "D", "I", "N", "G">>
    [] kind = "CHAIN" -> <<"C", "H", "A", "I", "N">>
    [] kind = "RETRIEVER" -> <<"R", "E", "T", "R", "I", "E", "V", "E", "R">>
    [] kind = "RERANKER" -> <<"R", "E", "R", "A", "N", "K", "E", "R">>
    [] kind = "TOOL" -> <<"T", "O", "O", "L">>
    [] kind = "AGENT" -> <<"A", "G", "E", "N", "T">>
    [] kind = "GUARDRAIL" -> <<"G", "U", "A", "R", "D", "R", "A", "I", "L">>
    [] kind = "EVALUATOR" -> <<"E", "V", "A", "L", "U", "A", "T", "O", "R">>
    [] kind = "PROMPT" -> <<"P", "R", "O", "M", "P", "T">>
    [] OTHER -> <<>>

Digits == {"0", "1", "2", "3", "4", "5", "6", "7", "8", "9"}

\* the character class \s
IsSpace(c) == c = " "

\* the character class [a-zA-Z0-9._-]
IsSegmentChar(c) ==
  \/ IsLowerLetter(c)
  \/ \E i \in 1..26 : UpperLetters[i] = c
  \/ c \in Digits
  \/ c \in {".", "_", "-"}

\* String.prototype.trim
RECURSIVE Trim(_)
Trim(s) ==
  IF s = <<>> THEN s
  ELSE IF IsSpace(Head(s)) THEN Trim(Tail(s))
  ELSE IF IsSpace(s[Len(s)]) THEN Trim(SubSeq(s, 1, Len(s) - 1))
  ELSE s

\* .replace(/\s+/g, '-'): every maximal run of white space becomes one '-'
RECURSIVE CollapseSpace(_)
CollapseSpace(s) ==
  IF s = <<>> THEN s
  ELSE IF IsSpace(Head(s))
       THEN IF Len(s) > 1 /\ IsSpace(s[2]) THEN CollapseSpace(Tail(s))
            ELSE <<"-">> \o CollapseSpace(Tail(s))
  ELSE <<Head(s)>> \o CollapseSpace(Tail(s))

\* .replace(/[^a-zA-Z0-9._-]/g, '-')
ReplaceUnsafe(s) == [i \in 1..Len(s) |-> IF IsSegmentChar(s[i]) THEN s[i] ELSE "-"]

SegmentCap == 80

\* .slice(0, n)
Slice(s, n) == IF Len(s) <= n THEN s ELSE SubSeq(s, 1, n)

sanitizeSegment(value, def) ==
  IF value = <<>> THEN def
  ELSE LET out == Slice(ReplaceUnsafe(CollapseSpace(Trim(value))), SegmentCap)
       IN IF out = <<>> THEN def ELSE out

\* the dynamic name `${id}-${name}-${executionId}`
DynamicName(workflowId, workflowName, executionId) ==
  sanitizeSegment(workflowId, N_wf) \o <<"-">>
  \o sanitizeSegment(workflowName, N_workflow) \o <<"-">>
  \o sanitizeSegment(executionId, N_exec)

\* buildWorkflowSpanName with no explicit pattern configured
buildWorkflowSpanName(conf, workflowId, workflowName, executionId) ==
  IF conf.DYNAMIC_WORKFLOW_TRACE_NAME
  THEN DynamicName(workflowId, workflowName, executionId)
  ELSE N_workflow_execute

\* /^(GET|POST|PUT|PATCH|DELETE|HEAD|OPTIONS)$/i.test(name)
HttpVerbs ==
  { <<"g","e","t">>, <<"p","o","s","t">>, <<"p","u","t">>,
    <<"p","a","t","c","h">>, <<"d","e","l","e","t","e">>,
    <<"h","e","a","d">>, <<"o","p","t","i","o","n","s">> }

nameLooksHttpVerb(name) == ToLowerCase(name) \in HttpVerbs

\* ------------------------------------------------------------------------
\* tracing.js: payload helpers (safeJSONStringify, truncateIO)
\* ------------------------------------------------------------------------
\* values that occur in payloads, besides strings, numbers, null and
\* undefined: booleans, BigInts, objects with fields in insertion order,
\* arrays
JsBoolean(b) == [t |-> "boolean", v |-> IF b THEN <<"true">> ELSE <<"false">>]

JsBigInt == [t |-> "bigint", v |-> <<>>]

Field(k, val) == [k |-> k, val |-> val]

JsRecord(fields) == [t |-> "object", v |-> fields]

JsArray(items) == [t |-> "array", v |-> items]

\* obj[k] for an object value (the first field named k), undefined otherwise
GetField(obj, k) ==
  IF obj.t = "object" /\ \E i \in 1..Len(obj.v) : obj.v[i].k = k
  THEN obj.v[CHOOSE i \in 1..Len(obj.v) :
                 obj.v[i].k = k /\ \A j \in 1..(i - 1) : obj.v[j].k # k].val
  ELSE JsUndefined

\* the texts the helpers produce and the scenarios use: String(42), the JSON
\* literals, String({}), String(e) of the errors raised by JSON.stringify on
\* a BigInt and by iterating a value that is not iterable, the truncation
\* marker, the payload texts, and attribute values
Txt ==
  [ number42 |-> <<"4", "2">>,
    true |-> <<"t", "r", "u", "e">>,
    false |-> <<"f", "a", "l", "s", "e">>,
    null |-> <<"n", "u", "l", "l">>,
    objectObject |-> <<"[", "o", "b", "j", "e", "c", "t", " ", "O", "b", "j", "e", "c", "t", "]">>,
    bigIntError |-> <<"T", "y", "p", "e", "E", "r", "r", "o", "r", ":", " ", "D", "o", " ", "n", "o", "t", " ", "k", "n", "o", "w", " ", "h", "o", "w", " ", "t", "o", " ", "s", "e", "r", "i", "a", "l", "i", "z", "e", " ", "a", " ", "B", "i", "g", "I", "n", "t">>,
    notIterableError |-> <<"T", "y", "p", "e", "E", "r", "r", "o", "r", ":", " ", "c", "o", "n", "n", "e", "c", "t", "i", "o", "n", " ", "i", "s", " ", "n", "o", "t", " ", "i", "t", "e", "r", "a", "b", "l", "e">>,
    truncatedOpen |-> <<".", ".", ".", "[", "t", "r", "u", "n", "c", "a", "t", "e", "d", " ">>,
    truncatedClose |-> <<" ", "c", "h", "a", "r", "s", "]">>,
    hi |-> <<"h", "i">>,
    hello |-> <<"h", "e", "l", "l", "o">>,
    Last |-> <<"L", "a", "s", "t">>,
    user |-> <<"u", "s", "e", "r">>,
    assistant |-> <<"a", "s", "s", "i", "s", "t", "a", "n", "t">>,
    json |-> <<"a", "p", "p", "l", "i", "c", "a", "t", "i", "o", "n", "/", "j", "s", "o", "n">> ]

\* property names (a leading underscore is written as a leading x)
Key ==
  [ x_serializationError |-> <<"_", "s", "e", "r", "i", "a", "l", "i", "z", "a", "t", "i", "o", "n", "E", "r", "r", "o", "r">>,
    x_error |-> <<"_", "e", "r", "r", "o", "r">>,
    json |-> <<"j", "s", "o", "n">>,
    data |-> <<"d", "a", "t", "a">>,
    main |-> <<"m", "a", "i", "n">>,
    ai_tool |-> <<"a", "i", "_", "t", "o", "o", "l">>,
    primary |-> <<"p", "r", "i", "m", "a", "r", "y">>,
    items |-> <<"i", "t", "e", "m", "s">>,
    output |-> <<"o", "u", "t", "p", "u", "t">>,
    completion |-> <<"c", "o", "m", "p", "l", "e", "t", "i", "o", "n">>,
    text |-> <<"t", "e", "x", "t">>,
    result |-> <<"r", "e", "s", "u", "l", "t">>,
    response |-> <<"r", "e", "s", "p", "o", "n", "s", "e">>,
    chatInput |-> <<"c", "h", "a", "t", "I", "n", "p", "u", "t">>,
    prompt |-> <<"p", "r", "o", "m", "p", "t">>,
    query |-> <<"q", "u", "e", "r", "y">>,
    workflowId |-> <<"w", "o", "r", "k", "f", "l", "o", "w", "I", "d">>,
    workflowName |-> <<"w", "o", "r", "k", "f", "l", "o", "w", "N", "a", "m", "e">>,
    runData |-> <<"r", "u", "n", "D", "a", "t", "a">>,
    lastNodeExecuted |-> <<"l", "a", "s", "t", "N", "o", "d", "e", "E", "x", "e", "c", "u", "t", "e", "d">>,
    resultData |-> <<"r", "e", "s", "u", "l", "t", "D", "a", "t", "a">>,
    saveData |-> <<"s", "a", "v", "e", "D", "a", "t", "a">>,
    a |-> <<"a">>,
    b |-> <<"b">>,
    c |-> <<"c">> ]

\* the text of a natural number
RECURSIVE DecimalChars(_)
DecimalChars(n) ==
  LET digit(d) == <<"0", "1", "2", "3", "4", "5", "6", "7", "8", "9">>[d + 1]
  IN IF n < 10 THEN <<digit(n)>>
     ELSE Append(DecimalChars(n \div 10), digit(n % 10))

\* JSON string escaping of the characters used here: quote and backslash
EscapeChar(c) ==
  IF c = "\"" THEN <<"\\", "\"">>
  ELSE IF c = "\\" THEN <<"\\", "\\">>
  ELSE <<c>>

RECURSIVE EscapeString(_)
EscapeString(str) ==
  IF str = <<>> THEN <<>>
  ELSE EscapeChar(Head(str)) \o EscapeString(Tail(str))

\* does JSON.stringify(x) return (it throws a TypeError on a BigInt)
RECURSIVE Serializable(_)
Serializable(x) ==
  CASE x.t = "bigint" -> FALSE
    [] x.t = "object" -> \A i \in 1..Len(x.v) : Serializable(x.v[i].val)
    [] x.t = "array" -> \A i \in 1..Len(x.v) : Serializable(x.v[i])
    [] OTHER -> TRUE

\* JSON.stringify(x) for a serializable x: properties holding undefined are
\* left out, undefined array elements are written null; for undefined itself
\* there is no text
RECURSIVE JSONStringify(_)
RECURSIVE JoinMembers(_)
RECURSIVE JoinItems(_)
JoinMembers(fields) ==
  IF fields = <<>> THEN <<>>
  ELSE LET f == Head(fields)
           member == <<"\"">> \o EscapeString(f.k) \o <<"\"", ":">> \o JSONStringify(f.val)
       IN IF Len(fields) = 1 THEN member
          ELSE member \o <<",">> \o JoinMembers(Tail(fields))

JoinItems(items) ==
  IF items = <<>> THEN <<>>
  ELSE LET item == IF Head(items).t = "undefined" THEN Txt.null
                   ELSE JSONStringify(Head(items))
       IN IF Len(items) = 1 THEN item
          ELSE item \o <<",">> \o JoinItems(Tail(items))

JSONStringify(x) ==
  CASE x.t = "string" -> <<"\"">> \o EscapeString(x.v) \o <<"\"">>
    [] x.t = "number" -> Txt.number42
    [] x.t = "boolean" -> IF x.v = <<"true">> THEN Txt.true ELSE Txt.false
    [] x.t = "null" -> Txt.null
    [] x.t = "object" ->
         <<"{">> \o JoinMembers(SelectSeq(x.v, LAMBDA f : f.val.t # "undefined")) \o <<"}">>
    [] x.t = "array" -> <<"[">> \o JoinItems(x.v) \o <<"]">>
    [] OTHER -> <<>>

\* lines 152-158
safeJSONStringify(obj) ==
  IF Serializable(obj) THEN JSONStringify(obj)
  ELSE JSONStringify(JsRecord(<<Field(Key.x_serializationError, JsString(Txt.bigIntError))>>))

\* String(x)
StringOf(x) ==
  CASE x.t = "string" -> x.v
    [] x.t = "number" -> Txt.number42
    [] x.t = "boolean" -> IF x.v = <<"true">> THEN Txt.true ELSE Txt.false
    [] OTHER -> Txt.objectObject

\* truncateIO with the elided count replaced by the length of the whole string
truncateIO_ReportsLength(cap, x) ==
  IF x.t \in {"undefined", "null"} THEN <<>>
  ELSE LET str == StringOf(x)
       IN IF Len(str) <= cap THEN str
          ELSE Slice(str, cap) \o Txt.truncatedOpen \o DecimalChars(Len(str))
               \o Txt.truncatedClose

\* lines 160-167, MAX_IO_CHARS being cap
truncateIO(cap, x) ==
  IF x.t \in {"undefined", "null"} THEN <<>>
  ELSE LET str == StringOf(x)
       IN IF Len(str) <= cap THEN str
          ELSE Slice(str, cap) \o Txt.truncatedOpen \o DecimalChars(Len(str) - cap)
               \o Txt.truncatedClose

\* can `for (const item of x)` iterate x
Iterable(x) == x.t \in {"array", "string"}

\* the json of the items of one connection that carry one (item?.json)
ItemsJson(connection) ==
  LET withJson == SelectSeq(connection.v, LAMBDA item : Truthy(GetField(item, Key.json)))
  IN [i \in 1..Len(withJson) |-> GetField(withJson[i], Key.json)]

\* the items of the connections that are arrays, in order
RECURSIVE CollectItems(_)
CollectItems(connections) ==
  IF connections = <<>> THEN <<>>
  ELSE (IF Head(connections).t = "array" THEN ItemsJson(Head(connections)) ELSE <<>>)
       \o CollectItems(Tail(connections))

\* { _error: String(e) }
ErrorRecord(text) == JsRecord(<<Field(Key.x_error, JsString(text))>>)

\* line 181: executionData?.data?.main
MainInputs(executionData) == GetField(GetField(executionData, Key.data), Key.main)

\* lines 178-200, `main` being executionData?.data?.main: a connection that
\* is neither falsy nor iterable makes the loop throw, which is caught
extractNodeInputFromExecutionData(main) ==
  IF main.t # "array" \/ Len(main.v) = 0 THEN JsUndefined
  ELSE IF \E i \in 1..Len(main.v) : Truthy(main.v[i]) /\ ~Iterable(main.v[i])
  THEN ErrorRecord(Txt.notIterableError)
  ELSE LET allItems == CollectItems(main.v)
       IN CASE Len(allItems) = 0 -> JsUndefined
            [] Len(allItems) = 1 -> allItems[1]
            [] OTHER -> JsArray(allItems)

\* a || b || ... over the fields of obj named by keys, undefined when none
\* is truthy
RECURSIVE FirstTruthy(_, _)
FirstTruthy(obj, keys) ==
  IF keys = <<>> THEN JsUndefined
  ELSE IF Truthy(GetField(obj, Head(keys))) THEN GetField(obj, Head(keys))
  ELSE FirstTruthy(obj, Tail(keys))

\* the number of records extractNodeOutput keeps
OutputItemCap == 10

\* extractNodeOutput without the response field among the primary fields
extractNodeOutput_NoResponse(result) ==
  IF result.t = "throwing" THEN ErrorRecord(Txt.objectObject)
  ELSE IF ~Truthy(result) THEN JsUndefined
  ELSE LET data == GetField(result, Key.data)
           connections ==
             IF data.t = "array" THEN data.v
             ELSE IF data.t = "object" /\ GetField(data, Key.main).t = "array"
             THEN GetField(data, Key.main).v
             ELSE <<>>
           allItems == CollectItems(connections)
           primary ==
             IF allItems[1].t = "object"
             THEN FirstTruthy(allItems[1], <<Key.output, Key.completion, Key.text,
                                             Key.result>>)
             ELSE JsUndefined
       IN IF Len(allItems) = 0 THEN JsUndefined
          ELSE JsRecord(<<Field(Key.primary, primary),
                          Field(Key.items, JsArray(Slice(allItems, OutputItemCap)))>>)

\* extractNodeOutput without the slice of line 261: every record is returned
extractNodeOutput_NoCap(result) ==
  IF result.t = "throwing" THEN ErrorRecord(Txt.objectObject)
  ELSE IF ~Truthy(result) THEN JsUndefined
  ELSE LET data == GetField(result, Key.data)
           connections ==
             IF data.t = "array" THEN data.v
             ELSE IF data.t = "object" /\ GetField(data, Key.main).t = "array"
             THEN GetField(data, Key.main).v
             ELSE <<>>
           allItems == CollectItems(connections)
           primary ==
             IF allItems[1].t = "object"
             THEN FirstTruthy(allItems[1], <<Key.output, Key.completion, Key.text,
                                             Key.result, Key.response>>)
             ELSE JsUndefined
       IN IF Len(allItems) = 0 THEN JsUndefined
          ELSE JsRecord(<<Field(Key.primary, primary),
                          Field(Key.items, JsArray(allItems))>>)

\* lines 213-265; a result whose properties cannot be read (t = "throwing")
\* yields the diagnostic record
extractNodeOutput(result) ==
  IF result.t = "throwing" THEN ErrorRecord(Txt.objectObject)
  ELSE IF ~Truthy(result) THEN JsUndefined
  ELSE LET data == GetField(result, Key.data)
           connections ==
             IF data.t = "array" THEN data.v
             ELSE IF data.t = "object" /\ GetField(data, Key.main).t = "array"
             THEN GetField(data, Key.main).v
             ELSE <<>>
           allItems == CollectItems(connections)
           primary ==
             IF allItems[1].t = "object"
             THEN FirstTruthy(allItems[1], <<Key.output, Key.completion, Key.text,
                                             Key.result, Key.response>>)
             ELSE JsUndefined
       IN IF Len(allItems) = 0 THEN JsUndefined
          ELSE JsRecord(<<Field(Key.primary, primary),
                          Field(Key.items, JsArray(Slice(allItems, OutputItemCap)))>>)

\* ------------------------------------------------------------------------
\* tracing.js: flattening of the workflow settings (flatten of package flat)
\* ------------------------------------------------------------------------
\* transformKey of line 598: the key with n8n.workflow.settings. before it
SettingsPrefix == <<"n", "8", "n", ".", "w", "o", "r", "k", "f", "l", "o", "w", ".", "s", "e", "t", "t", "i", "n", "g", "s", ".">>

transformKey(key) == SettingsPrefix \o key

\* Object.keys(x) with the values: the properties of an object in order, the
\* elements of an array under their indices
Members(x) ==
  IF x.t = "array" THEN [i \in 1..Len(x.v) |-> Field(DecimalChars(i - 1), x.v[i])]
  ELSE x.v

\* flatten descends into objects and arrays that have keys
IsNested(x) == x.t \in {"object", "array"} /\ Len(x.v) > 0

\* the walk of flatten with delimiter '.': every key, at every depth, goes
\* through transformKey before it is joined to the keys above it; the
\* result lists the output's properties in insertion order
RECURSIVE FlattenStep(_, _)
FlattenStep(members, prev) ==
  IF members = <<>> THEN <<>>
  ELSE LET f == Head(members)
           newKey == IF prev # <<>> THEN prev \o <<".">> \o transformKey(f.k)
                     ELSE transformKey(f.k)
       IN (IF IsNested(f.val) THEN FlattenStep(Members(f.val), newKey)
           ELSE <<Field(newKey, f.val)>>)
          \o FlattenStep(Tail(members), prev)

\* lines 595-599: flatten(wfData?.settings ?? {}, {delimiter, transformKey})
FlattenSettings(settings) ==
  IF settings.t \in {"undefined", "null"} THEN <<>>
  ELSE FlattenStep(Members(settings), <<>>)

\* ------------------------------------------------------------------------
\* Spans (the part of the OpenTelemetry span interface the wrappers use)
\* ------------------------------------------------------------------------
MaxSpans == 4

\* SpanStatusCode
StatusCodes == {"UNSET", "OK", "ERROR"}

\* the values a wrapped call can throw or reject with: an Error object
\* (it has a message), and undefined (a rejection without a reason)
ErrorValues == {"Err1", Undefined}

\* the error raised by the runtime when a property of undefined is read
\* or a non-function is called
TypeError == "TypeError"

\* a settled or pending promise, or a synchronous throw, as seen by whoever
\* holds it: k is "none", "pending", "resolved", "rejected" or "threw"
Outcome(k, err, res) == [k |-> k, err |-> err, res |-> res]

NoOutcome == Outcome("none", Undefined, "none")

Pending == Outcome("pending", Undefined, "none")

Resolved(res) == Outcome("resolved", Undefined, res)

Rejected(e) == Outcome("rejected", e, "none")

Threw(e) == Outcome("threw", e, "none")

\* tracer.startSpan(name, {attributes}): the parent is the span that is
\* active in the context of the caller
NewSpan(origin, r, name, parent, attrs) ==
  [ origin |-> origin, run |-> r, name |-> name, parent |-> parent,
    attrs |-> attrs, status |-> "UNSET", ends |-> 0, exceptions |-> <<>> ]

\* span.attributes?.[k] !== undefined
HasAttr(sp, k) == k \in DOMAIN sp.attrs

\* span.setAttribute(k, v); an ended span ignores it
setAttribute(sp, k, v) ==
  IF sp.ends > 0 THEN sp ELSE [sp EXCEPT !.attrs = (k :> v) @@ @]

\* span.updateName(name); an ended span ignores it
updateName(sp, name) ==
  IF sp.ends > 0 THEN sp ELSE [sp EXCEPT !.name = name]

\* span.setStatus({code}); an ended span ignores it
setStatus(sp, code) ==
  IF sp.ends > 0 THEN sp ELSE [sp EXCEPT !.status = code]

\* span.recordException(e): undefined carries neither a type nor a message
\* and no event is added for it; an ended span ignores the call
recordException(sp, e) ==
  IF sp.ends > 0 \/ e = Undefined THEN sp
  ELSE [sp EXCEPT !.exceptions = Append(@, e)]

\* span.end()
endSpan(sp) == [sp EXCEPT !.ends = @ + 1]

\* String(error.message || error): reading .message of undefined throws
StatusMessageThrows(e) == e = Undefined

\* has the SDK been started, so that the tracer hands out recording spans
\* and the context manager is registered
SdkStarted == \E i \in 1..Len(initLog) : initLog[i] = "sdkStart"

AutoInstrumented == \E i \in 1..Len(initLog) : initLog[i] = "autoInstrumentations"

\* ------------------------------------------------------------------------
\* The workflow-run wrapper: WorkflowExecute.prototype.processRunExecutionData
\* ------------------------------------------------------------------------
\* the workflow argument: absent, or an object with id and name
NoWorkflow == [t |-> "undefined", id |-> <<>>, name |-> <<>>]

WfDemo == [t |-> "object", id |-> S_wf1, name |-> S_Demo]

\* the receiver of the call: the execution id it carries directly, under
\* workflowExecuteAdditionalData and under additionalData (<<>> when absent)
Receiver(id, direct, wead, ad) == [id |-> id, direct |-> direct, wead |-> wead, ad |-> ad]

\* the invocations of the wrapper considered: receiver, workflow argument
\* and number of arguments
RunCalls ==
  { [recv |-> Receiver(1, <<>>, <<>>, S_42), wf |-> WfDemo,     nargs |-> 1],
    [recv |-> Receiver(2, <<>>, <<>>, <<>>), wf |-> NoWorkflow, nargs |-> 0],
    [recv |-> Receiver(3, S_42, <<>>, <<>>), wf |-> WfDemo,     nargs |-> 2] }

\* the argument list of a call with n arguments: argument i is the value i
ArgList(n) == [i \in 1..n |-> i]

\* what the wrapped workflow run does when called
RunBehaviours == {"promise", "throws", "nonPromise"}

\* the results a workflow run resolves with: the engine-reported error
\* (Undefined when there is none) and the shape of the last node's output
WorkflowResult(error, out) == [error |-> error, out |-> out]

WorkflowResults ==
  { WorkflowResult(Undefined, "one"),
    WorkflowResult(Undefined, "malformed"),
    WorkflowResult("Err1", "none") }

NoResult == WorkflowResult(Undefined, "none")

\* deriveSessionId
deriveSessionId(executionId) == IF executionId = <<>> THEN S_unknown ELSE executionId

\* this?.executionId || this?.workflowExecuteAdditionalData?.executionId
\*   || this?.additionalData?.executionId || 'unknown'
RunExecutionId(recv) ==
  IF recv.direct # <<>> THEN recv.direct
  ELSE IF recv.wead # <<>> THEN recv.wead
  ELSE IF recv.ad # <<>> THEN recv.ad
  ELSE S_unknown

\* workflowAttributes (without the flattened settings and the metadata string)
WorkflowAttributes(wf, executionId) ==
  ("openinference.span.kind" :> "CHAIN")
  @@ ("session.id" :> deriveSessionId(executionId))
  @@ ("n8n.workflow.id" :> (IF wf.t = "object" THEN wf.id ELSE <<>>))
  @@ ("n8n.workflow.name" :> (IF wf.t = "object" THEN wf.name ELSE <<>>))
  @@ ("n8n.execution.id" :> executionId)

\* does the span look like an inbound-request span
LooksLikeHttp(sp) ==
  \/ HasAttr(sp, "http.method")
  \/ HasAttr(sp, "http.request.method")
  \/ nameLooksHttpVerb(sp.name)

\* a span object on which updateName cannot be called: the span of a tracer
\* implementation that is not the SDK's; line 646 throws a TypeError on it
RenameUnsupported(sp) == sp.origin = "foreign"

\* every workflow attribute copied, whether or not the parent carries the key
CopyMissing_Overwrite(sp, attrs) ==
  IF sp.ends > 0 THEN sp
  ELSE [sp EXCEPT !.attrs = attrs @@ @]

\* the keys of attrs in a fixed order is immaterial: each key is copied
\* unless the parent already carries it
CopyMissing(sp, attrs) ==
  IF sp.ends > 0 THEN sp
  ELSE [sp EXCEPT !.attrs = @ @@ attrs]

\* the reconciliation with the parent given the name buildWorkflowSpanName
\* yields for the run
ReconcileParent_PolicyName(conf, sp, wf, executionId) ==
  IF ~conf.ONLY_WORKFLOW_SPANS /\ LooksLikeHttp(sp) /\ ~RenameUnsupported(sp)
  THEN LET originalName == sp.name
           newRootName ==
             buildWorkflowSpanName(conf, IF wf.t = "object" THEN wf.id ELSE <<>>,
                                   IF wf.t = "object" THEN wf.name ELSE <<>>,
                                   executionId)
           renamed == updateName(sp, newRootName)
           copied == CopyMissing(renamed, WorkflowAttributes(wf, executionId))
           named == setAttribute(copied, "n8n.http.original_name", originalName)
       IN setAttribute(named, "n8n.trace.naming",
                       IF conf.DYNAMIC_WORKFLOW_TRACE_NAME
                       THEN "dynamic" ELSE "constant")
  ELSE sp

\* lines 620-656: rename the active parent when it looks like a request span;
\* when updateName throws, lines 647-653 are skipped and the catch of line
\* 654 leaves the parent as it was
ReconcileParent(conf, sp, wf, executionId) ==
  IF ~conf.ONLY_WORKFLOW_SPANS /\ LooksLikeHttp(sp) /\ ~RenameUnsupported(sp)
  THEN LET originalName == sp.name
           newRootName ==
             IF conf.DYNAMIC_WORKFLOW_TRACE_NAME
             THEN DynamicName(IF wf.t = "object" THEN wf.id ELSE <<>>,
                              IF wf.t = "object" THEN wf.name ELSE <<>>,
                              executionId)
             ELSE N_workflow_request
           renamed == updateName(sp, newRootName)
           copied == CopyMissing(renamed, WorkflowAttributes(wf, executionId))
           named == setAttribute(copied, "n8n.http.original_name", originalName)
       IN setAttribute(named, "n8n.trace.naming",
                       IF conf.DYNAMIC_WORKFLOW_TRACE_NAME
                       THEN "dynamic" ELSE "constant")
  ELSE sp

\* the exception of line 646 leaving the wrapper were lines 645-656 not a
\* try/catch
ReconcileEscapes_NoCatch(conf, sp) ==
  ~conf.ONLY_WORKFLOW_SPANS /\ LooksLikeHttp(sp) /\ RenameUnsupported(sp)

\* lines 645-656: whatever updateName or setAttribute throws is caught (and
\* logged when DEBUG is set); nothing leaves the block
ReconcileEscapes(conf, sp) == FALSE

\* the context the wrapped call would run in were context.with left out:
\* the caller's
EngineContext_CallerContext(callerSpan, span) == callerSpan

\* context.with(trace.setSpan(context.active(), span), fn): fn, and every
\* continuation created while it runs, sees `span` as the active span
EngineContext(callerSpan, span) == span

\* the spans that may be active where a workflow run is started: none, an
\* open request span, or the span of a step that is being awaited
CallerSpans ==
  {0} \cup {s \in 1..Len(spans) : spans[s].origin \in {"http", "foreign"}
                                   /\ spans[s].ends = 0}
      \cup {step[q].span : q \in {p \in Runs : step[p].pc = "awaiting" /\ step[p].span # 0}}

\* a promise derived by .then(...).finally(...) has no cancel method
CallerCanCancel_Derived(wrappedCanCancel) == FALSE

\* line 749, `return cancelable`: the caller holds the object the wrapped
\* call returned, a PCancelable, and so its cancel method
CallerCanCancel(wrappedCanCancel) == wrappedCanCancel

IdleRun ==
  [ pc |-> "idle", span |-> 0, ctx |-> 0, steps |-> 0,
    recvIn |-> 0, argsIn |-> <<>>, recvOut |-> 0, argsOut |-> <<>>,
    settled |-> NoOutcome, result |-> NoResult, caller |-> NoOutcome,
    canCancel |-> FALSE ]

\* The synchronous part of the wrapper: derive the attributes, reconcile an
\* inbound-request parent, start the span, call the wrapped function inside
\* the span's context, attach the completion callbacks, return its promise.
StartRun(r, call, callerSpan, behaviour, e) ==
  /\ run[r].pc = "idle"
  /\ wrapDepth["processRunExecutionData"] >= 1
  /\ SdkStarted
  /\ Len(spans) < MaxSpans
  /\ callerSpan \in CallerSpans
  /\ LET executionId == RunExecutionId(call.recv)
         wfId == IF call.wf.t = "object" THEN call.wf.id ELSE <<>>
         wfName == IF call.wf.t = "object" THEN call.wf.name ELSE <<>>
         escapes == callerSpan # 0 /\ ReconcileEscapes(cfg, spans[callerSpan])
         reconciled ==
           IF callerSpan = 0 THEN spans
           ELSE [spans EXCEPT ![callerSpan] =
                   ReconcileParent(cfg, @, call.wf, executionId)]
         span == NewSpan("workflow", r,
                         buildWorkflowSpanName(cfg, wfId, wfName, executionId),
                         callerSpan, WorkflowAttributes(call.wf, executionId))
         sid == Len(spans) + 1
     IN IF escapes
        THEN \* the wrapper is left before line 658: no span, no call
             /\ spans' = spans
             /\ run' = [run EXCEPT ![r] =
                  [ @ EXCEPT
                    !.recvIn = call.recv.id,
                    !.argsIn = ArgList(call.nargs),
                    !.pc = "threw",
                    !.caller = Threw(TypeError) ]]
        ELSE /\ spans' = Append(reconciled, span)
             /\ run' = [run EXCEPT ![r] =
                  [ @ EXCEPT
                    !.span = sid,
                    !.recvIn = call.recv.id,
                    !.argsIn = ArgList(call.nargs),
                    !.recvOut = call.recv.id,
                    !.argsOut = ArgList(call.nargs),
                    !.ctx = EngineContext(callerSpan, sid),
                    !.pc = IF behaviour = "promise" THEN "running" ELSE "threw",
                    !.canCancel = (behaviour = "promise" /\ CallerCanCancel(TRUE)),
                    !.caller = CASE behaviour = "promise" -> Pending
                                 [] behaviour = "throws" -> Threw(e)
                                 [] OTHER -> Threw(TypeError) ]]
  /\ UNCHANGED <<step>>
  /\ UNCHANGED guardVars
  /\ UNCHANGED pureVars
  /\ UNCHANGED processVars

\* what the caller would hold were the promise derived by .then(...)
\* .finally(...) returned: it resolves with the callbacks' value, undefined
CallerPromise_Derived(settled) ==
  IF settled.k = "resolved" THEN Resolved("undefined") ELSE settled

\* line 749: the wrapper returns the promise of the wrapped call itself, so
\* the caller observes exactly its settlement
CallerPromise(settled) == settled

\* The promise returned by the wrapped workflow run settles.
RunSettle(r, outcome) ==
  /\ run[r].pc = "running"
  /\ step[r].pc = "idle"
  /\ run' = [run EXCEPT ![r] =
       [@ EXCEPT !.pc = "settled", !.settled = outcome.o,
                 !.result = outcome.result, !.caller = CallerPromise(outcome.o)]]
  /\ UNCHANGED <<spans, step>>
  /\ UNCHANGED guardVars
  /\ UNCHANGED pureVars
  /\ UNCHANGED processVars

\* the settlements of a workflow run: a result, or a rejection
RunOutcomes ==
  {[o |-> Resolved("result"), result |-> res] : res \in WorkflowResults}
  \cup {[o |-> Rejected(e), result |-> NoResult] : e \in ErrorValues}

\* one item whose json is the record {response: 'hello'}
HelloItem ==
  JsRecord(<<Field(Key.json, JsRecord(<<Field(Key.response, JsString(Txt.hello))>>))>>)

\* result.data.resultData of a workflow result: the run data of the node
\* executed last holds one item ("one"), or a `main` that cannot be iterated
\* ("malformed"), or there is no run data ("none"); or the run data holds a
\* run of another node and two runs of the node executed last, each with an
\* item of its own ("several")
WorkflowResultData(out) ==
  LET runOf(main) == JsRecord(<<Field(Key.data, JsRecord(<<Field(Key.main, main)>>))>>)
      runs(main) == JsArray(<<runOf(main)>>)
      itemOf(k, text) ==
        JsArray(<<JsArray(<<JsRecord(<<Field(Key.json,
                    JsRecord(<<Field(k, JsString(text))>>))>>)>>)>>)
      resultData(main) ==
        JsRecord(<<Field(Key.runData, JsRecord(<<Field(Txt.Last, runs(main))>>)),
                   Field(Key.lastNodeExecuted, JsString(Txt.Last))>>)
  IN CASE out = "one" -> resultData(JsArray(<<JsArray(<<HelloItem>>)>>))
       [] out = "malformed" -> resultData(JsNumber)
       [] out = "several" ->
            JsRecord(<<Field(Key.runData,
                         JsRecord(<<Field(Txt.user, runs(itemOf(Key.response, Txt.hi))),
                                    Field(Txt.Last,
                                          JsArray(<<runOf(itemOf(Key.text, Txt.hi)),
                                                    runOf(JsArray(<<JsArray(<<HelloItem>>)>>))>>))>>)),
                       Field(Key.lastNodeExecuted, JsString(Txt.Last))>>)
       [] OTHER -> JsRecord(<<>>)

\* the final output taken from the first run of the node executed last
WorkflowFinalOutput_FirstRun(resultData) ==
  LET runData == GetField(resultData, Key.runData)
      lastNode == GetField(resultData, Key.lastNodeExecuted)
      lastNodeRuns == IF lastNode.t = "string" THEN GetField(runData, lastNode.v)
                      ELSE JsUndefined
      lastRun == IF lastNodeRuns.t = "array" /\ Len(lastNodeRuns.v) > 0
                 THEN lastNodeRuns.v[1] ELSE JsUndefined
      mainOutputs == GetField(GetField(lastRun, Key.data), Key.main)
      throws ==
        \/ ~Iterable(mainOutputs)
        \/ \E i \in 1..Len(mainOutputs.v) :
              Truthy(mainOutputs.v[i]) /\ ~Iterable(mainOutputs.v[i])
      outputItems == CollectItems(mainOutputs.v)
  IN IF ~(Truthy(runData) /\ Truthy(lastNode) /\ Truthy(lastNodeRuns)) THEN JsUndefined
     ELSE IF ~Truthy(mainOutputs) \/ throws THEN JsUndefined
     ELSE CASE Len(outputItems) = 0 -> JsUndefined
            [] Len(outputItems) = 1 -> outputItems[1]
            [] OTHER -> JsArray(outputItems)

\* lines 699-723: the output of the last run of the node executed last;
\* Undefined when there is none or when reading it throws
WorkflowFinalOutput(resultData) ==
  LET runData == GetField(resultData, Key.runData)
      lastNode == GetField(resultData, Key.lastNodeExecuted)
      lastNodeRuns == IF lastNode.t = "string" THEN GetField(runData, lastNode.v)
                      ELSE JsUndefined
      lastRun == IF lastNodeRuns.t = "array" /\ Len(lastNodeRuns.v) > 0
                 THEN lastNodeRuns.v[Len(lastNodeRuns.v)] ELSE JsUndefined
      mainOutputs == GetField(GetField(lastRun, Key.data), Key.main)
      throws ==
        \/ ~Iterable(mainOutputs)
        \/ \E i \in 1..Len(mainOutputs.v) :
              Truthy(mainOutputs.v[i]) /\ ~Iterable(mainOutputs.v[i])
      outputItems == CollectItems(mainOutputs.v)
  IN IF ~(Truthy(runData) /\ Truthy(lastNode) /\ Truthy(lastNodeRuns)) THEN JsUndefined
     ELSE IF ~Truthy(mainOutputs) \/ throws THEN JsUndefined
     ELSE CASE Len(outputItems) = 0 -> JsUndefined
            [] Len(outputItems) = 1 -> outputItems[1]
            [] OTHER -> JsArray(outputItems)

\* lines 695-736: capture of the workflow output, cut to cap characters by
\* truncateIO, and of a minimal input, which is attached as serialized
CaptureWorkflowIO(cap, sp, result) ==
  LET finalOutput == WorkflowFinalOutput(WorkflowResultData(result.out))
      withOutput ==
        IF finalOutput.t # "undefined"
        THEN setAttribute(
               setAttribute(sp, "output.value",
                            truncateIO(cap, JsString(safeJSONStringify(finalOutput)))),
               "output.mime_type", "application/json")
        ELSE sp
      minimal ==
        JsRecord(<<Field(Key.workflowId, JsString(sp.attrs["n8n.workflow.id"])),
                   Field(Key.workflowName, JsString(sp.attrs["n8n.workflow.name"]))>>)
  IN IF HasAttr(withOutput, "input.value") THEN withOutput
     ELSE setAttribute(setAttribute(withOutput, "input.value", safeJSONStringify(minimal)),
                       "input.mime_type", "application/json")

\* the fulfilment callback capturing whatever CAPTURE_IO says
OnFulfilled_AlwaysCapture(conf, sp, result) ==
  LET marked ==
        IF result.error # Undefined
        THEN setStatus(recordException(sp, result.error), "ERROR")
        ELSE setStatus(sp, "OK")
  IN CaptureWorkflowIO(conf.MAX_IO_CHARS, marked, result)

\* the fulfilment callback (lines 684-737)
OnFulfilled(conf, sp, result) ==
  LET marked ==
        IF result.error # Undefined
        THEN setStatus(recordException(sp, result.error), "ERROR")
        ELSE setStatus(sp, "OK")
  IN IF conf.CAPTURE_IO THEN CaptureWorkflowIO(conf.MAX_IO_CHARS, marked, result) ELSE marked

\* the rejection callback (lines 738-744); building the status message
\* throws for undefined, after the exception was offered to the span
OnRejected(sp, e) ==
  IF StatusMessageThrows(e) THEN recordException(sp, e)
  ELSE setStatus(recordException(sp, e), "ERROR")

\* The callbacks given to cancelable.then(...) run.
RunThen(r) ==
  /\ run[r].pc = "settled"
  /\ spans' = [spans EXCEPT ![run[r].span] =
       IF run[r].settled.k = "resolved"
       THEN OnFulfilled(cfg, @, run[r].result)
       ELSE OnRejected(@, run[r].settled.err)]
  /\ run' = [run EXCEPT ![r].pc = "handled"]
  /\ UNCHANGED <<step>>
  /\ UNCHANGED guardVars
  /\ UNCHANGED pureVars
  /\ UNCHANGED processVars

\* The callback given to .finally(...) runs.
RunFinally(r) ==
  /\ run[r].pc = "handled"
  /\ spans' = [spans EXCEPT ![run[r].span] = endSpan(@)]
  /\ run' = [run EXCEPT ![r].pc = "done"]
  /\ UNCHANGED <<step>>
  /\ UNCHANGED guardVars
  /\ UNCHANGED pureVars
  /\ UNCHANGED processVars

\* ------------------------------------------------------------------------
\* The step-run wrapper: WorkflowExecute.prototype.runNode
\* ------------------------------------------------------------------------
\* the number of parameters the wrapper declares and hands on
RunNodeArity == 7

\* executionData.node: display name (<<>> when absent), type, category
\* attribute (Undefined when absent), and whether it holds a value that
\* JSON.stringify rejects (a BigInt parameter)
Node(name, type, category, unserializable) ==
  [name |-> name, type |-> type, category |-> category, unserializable |-> unserializable]

\* executionData without a node: the wrapper substitutes the string 'unknown'
NoNode == Node(<<>>, JsUndefined, Undefined, FALSE)

\* additionalData: executionId and userId (<<>> when absent)
AdditionalData(executionId, userId) == [executionId |-> executionId, userId |-> userId]

\* the invocations of the wrapper considered
StepCalls ==
  { [this |-> TRUE, node |-> Node(S_AI_Agent, JsString(Id_OpenAi), Undefined, FALSE),
     input |-> "one", ad |-> AdditionalData(S_42, S_42), nargs |-> 7],
    [this |-> TRUE, node |-> Node(S_POST, JsString(Id_UnknownCustomNode123), Undefined, FALSE),
     input |-> "malformed", ad |-> AdditionalData(<<>>, <<>>), nargs |-> 8],
    [this |-> TRUE, node |-> Node(S_Get, JsString(Id_If), "Core Nodes", TRUE),
     input |-> "none", ad |-> AdditionalData(S_42, <<>>), nargs |-> 7],
    [this |-> TRUE, node |-> NoNode,
     input |-> "none", ad |-> AdditionalData(<<>>, <<>>), nargs |-> 6],
    [this |-> FALSE, node |-> Node(S_AI_Agent, JsString(Id_OpenAi), Undefined, FALSE),
     input |-> "one", ad |-> AdditionalData(S_42, S_42), nargs |-> 7] }

\* the values a step resolves with: a result whose output holds one record
\* with a response field, and a result whose inspection throws
StepResults == {"one", "malformed"}

\* the settlements of a step: a result, or a rejection
StepOutcomes ==
  {Resolved(res) : res \in StepResults} \cup {Rejected(e) : e \in ErrorValues}

\* n8nNodeAttrs as the classifier reads it
NodeAttrBag(node) == AttrBag("object", node.category, Undefined)

\* the span kind computed without consulting MAP_OPENINFERENCE_SPAN_KINDS
StepSpanKind_IgnoresFlag(conf, node) ==
  LET spanKind == mapNodeToSpanKind(node.type, NodeAttrBag(node))
  IN IF spanKind = Undefined THEN "CHAIN" ELSE spanKind

\* lines 821-826
StepSpanKind(conf, node) ==
  LET spanKind == IF conf.MAP_OPENINFERENCE_SPAN_KINDS
                  THEN mapNodeToSpanKind(node.type, NodeAttrBag(node))
                  ELSE Undefined
  IN IF spanKind = Undefined THEN "CHAIN" ELSE spanKind

\* lines 846-854
StepSpanName(conf, node, spanKind) ==
  IF conf.USE_NODE_NAME_SPAN
  THEN IF node.name = <<>> THEN N_unknown_node ELSE node.name
  ELSE IF conf.SPAN_KIND_IN_NODE_SPAN_NAME
       THEN N_node_prefix \o KindChars(spanKind) \o N_execute_suffix
  ELSE N_node_execute

\* lines 806-813: the type and the category of the node, when it has them,
\* under the keys n8n.node.type and n8n.node.category
FlattenedNodeAttrs(node) ==
  LET type == IF node.type.t = "string" THEN ("n8n.node.type" :> node.type.v)
              ELSE <<>>
  IN IF node.category # Undefined THEN ("n8n.node.category" :> node.category) @@ type
     ELSE type

\* nodeAttributes (without the remaining flattened node fields and the
\* metadata string)
StepAttributes(node, ad, spanKind) ==
  ("openinference.span.kind" :> spanKind)
  @@ ("session.id" :> deriveSessionId(IF ad.executionId = <<>> THEN S_unknown ELSE ad.executionId))
  @@ ("user.id" :> (IF ad.userId = <<>> THEN S_unknown ELSE ad.userId))
  @@ ("n8n.node.name" :> (IF node.name = <<>> THEN S_unknown ELSE node.name))
  @@ FlattenedNodeAttrs(node)

\* executionData.data.main of a step call: one connection with one item
\* whose json is {prompt: 'hi'} ("one") or {a: 'hi'} ("plain"), a connection
\* that cannot be iterated ("malformed"), or no input data ("none")
StepInputData(input) ==
  CASE input = "one" ->
         JsArray(<<JsArray(<<JsRecord(<<Field(Key.json,
                     JsRecord(<<Field(Key.prompt, JsString(Txt.hi))>>))>>)>>)>>)
    [] input = "plain" ->
         JsArray(<<JsArray(<<JsRecord(<<Field(Key.json,
                     JsRecord(<<Field(Key.a, JsString(Txt.hi))>>))>>)>>)>>)
    [] input = "malformed" -> JsArray(<<JsNumber>>)
    [] OTHER -> JsUndefined

\* the value a step resolves with: { data: [[ {json: {response: 'hello'}} ]] }
\* ("one"), { data: [[ {json: {a: 'hi'}} ]] } ("plain"), or an object whose
\* properties cannot be read ("malformed")
StepResultValue(res) ==
  CASE res = "one" -> JsRecord(<<Field(Key.data, JsArray(<<JsArray(<<HelloItem>>)>>))>>)
    [] res = "plain" ->
         JsRecord(<<Field(Key.data,
                     JsArray(<<JsArray(<<JsRecord(<<Field(Key.json,
                       JsRecord(<<Field(Key.a, JsString(Txt.hi))>>))>>)>>)>>))>>)
    [] OTHER -> [t |-> "throwing", v |-> <<>>]

\* typeof x === 'string' ? x : safeJSONStringify(x)
MessageContent(x) == IF x.t = "string" THEN x.v ELSE safeJSONStringify(x)

\* lines 862-886: the input payload, and for an LLM step the user message;
\* an extraction failure is turned into a diagnostic record and attached
CaptureStepInput(conf, sp, input, spanKind) ==
  LET inputObj == extractNodeInputFromExecutionData(StepInputData(input))
      valued ==
        setAttribute(
          setAttribute(sp, "input.value",
                       truncateIO(conf.MAX_IO_CHARS, JsString(safeJSONStringify(inputObj)))),
          "input.mime_type", "application/json")
      inputData == IF inputObj.t = "array" THEN inputObj.v[1] ELSE inputObj
      userContent == FirstTruthy(inputData, <<Key.chatInput, Key.text, Key.prompt, Key.query>>)
  IN IF ~conf.CAPTURE_IO \/ ~Truthy(inputObj) THEN sp
     ELSE IF spanKind = "LLM" /\ Truthy(userContent)
     THEN setAttribute(
            setAttribute(valued, "llm.input_messages.0.message.role", Txt.user),
            "llm.input_messages.0.message.content", MessageContent(userContent))
     ELSE valued

\* the output capture with the assistant message attached whatever the kind
CaptureStepOutput_AnyKind(conf, sp, res, spanKind) ==
  LET result == StepResultValue(res)
      extracted == extractNodeOutput(result)
      valued ==
        setAttribute(
          setAttribute(sp, "output.value",
                       truncateIO(conf.MAX_IO_CHARS, JsString(safeJSONStringify(extracted)))),
          "output.mime_type", "application/json")
      primary == GetField(extracted, Key.primary)
  IN IF ~conf.CAPTURE_IO \/ result.t = "throwing" \/ ~Truthy(extracted) THEN sp
     ELSE IF Truthy(primary)
     THEN setAttribute(
            setAttribute(valued, "llm.output_messages.0.message.role", Txt.assistant),
            "llm.output_messages.0.message.content", MessageContent(primary))
     ELSE valued

\* lines 897-936: the output payload, and for an LLM step the assistant
\* message; a failure while inspecting the result (line 901) is caught
CaptureStepOutput(conf, sp, res, spanKind) ==
  LET result == StepResultValue(res)
      extracted == extractNodeOutput(result)
      valued ==
        setAttribute(
          setAttribute(sp, "output.value",
                       truncateIO(conf.MAX_IO_CHARS, JsString(safeJSONStringify(extracted)))),
          "output.mime_type", "application/json")
      primary == GetField(extracted, Key.primary)
  IN IF ~conf.CAPTURE_IO \/ result.t = "throwing" \/ ~Truthy(extracted) THEN sp
     ELSE IF spanKind = "LLM" /\ Truthy(primary)
     THEN setAttribute(
            setAttribute(valued, "llm.output_messages.0.message.role", Txt.assistant),
            "llm.output_messages.0.message.content", MessageContent(primary))
     ELSE valued

\* the catch block without the finally block: the span is left open
StepFailed_NoEnd(sp, e) ==
  IF StatusMessageThrows(e)
  THEN [ span |-> recordException(sp, e), settles |-> Rejected(TypeError) ]
  ELSE [ span |-> setAttribute(setStatus(recordException(sp, e), "ERROR"),
                               "n8n.node.status", "error"),
         settles |-> Rejected(e) ]

\* lines 939-949: the catch and finally blocks for a failure e of the wrapped
\* call; when building the status message throws, the rest of the catch block
\* is skipped and the TypeError leaves the wrapper instead of e
StepFailed(sp, e) ==
  IF StatusMessageThrows(e)
  THEN [ span |-> endSpan(recordException(sp, e)), settles |-> Rejected(TypeError) ]
  ELSE [ span |-> endSpan(setAttribute(setStatus(recordException(sp, e), "ERROR"),
                                       "n8n.node.status", "error")),
         settles |-> Rejected(e) ]

\* the output captured after the finally block has ended the span
StepSucceeded_CaptureAfterEnd(conf, sp, res, spanKind) ==
  [ span |-> CaptureStepOutput(conf, endSpan(setStatus(sp, "OK")), res, spanKind),
    settles |-> Resolved(res) ]

\* lines 897-938 and 947-949: the wrapped call resolved with res
StepSucceeded(conf, sp, res, spanKind) ==
  [ span |-> endSpan(setStatus(CaptureStepOutput(conf, sp, res, spanKind), "OK")),
    settles |-> Resolved(res) ]

\* the continuation of the wrapper after the wrapped call settled
StepCompletion(conf, sp, outcome, spanKind) ==
  IF outcome.k = "resolved" THEN StepSucceeded(conf, sp, outcome.res, spanKind)
  ELSE StepFailed(sp, outcome.err)

\* the arguments the wrapper hands to the wrapped runNode: its seven
\* declared parameters, whatever the number it was called with
PassedStepArgs(argsIn) ==
  [i \in 1..RunNodeArity |-> IF i <= Len(argsIn) THEN argsIn[i] ELSE 0]

IdleStep ==
  [ pc |-> "idle", span |-> 0, kind |-> "none", invoked |-> FALSE,
    recvIn |-> 0, argsIn |-> <<>>, recvOut |-> 0, argsOut |-> <<>>,
    input |-> "none", orig |-> NoOutcome, caller |-> NoOutcome ]

\* The wrapper is called and runs up to its first suspension: the await of
\* the wrapped call. syncThrow: the wrapped call throws instead of returning
\* a promise.
StartStep(r, call, syncThrow) ==
  /\ run[r].pc = "running"
  /\ step[r].pc = "idle"
  /\ run[r].steps < MaxSteps
  /\ wrapDepth["runNode"] >= 1
  /\ Len(spans) < MaxSpans
  /\ LET recv == IF call.this THEN run[r].recvIn ELSE 0
         argsIn == ArgList(call.nargs)
         spanKind == StepSpanKind(cfg, call.node)
         sid == Len(spans) + 1
         started == CaptureStepInput(cfg,
                      NewSpan("node", r, StepSpanName(cfg, call.node, spanKind),
                              run[r].ctx,
                              StepAttributes(call.node, call.ad, spanKind)),
                      call.input, spanKind)
         thrown == StepFailed(started, "Err1")
         base == [IdleStep EXCEPT !.recvIn = recv, !.argsIn = argsIn,
                                  !.input = call.input]
     IN CASE ~call.this ->
               \* lines 787-790: no span, the wrapped call is returned as is
               /\ spans' = spans
               /\ step' = [step EXCEPT ![r] =
                    [base EXCEPT !.invoked = TRUE, !.recvOut = recv,
                                 !.argsOut = argsIn,
                                 !.pc = IF syncThrow THEN "idle" ELSE "awaiting",
                                 !.orig = IF syncThrow THEN Threw("Err1") ELSE Pending,
                                 !.caller = IF syncThrow THEN Rejected("Err1") ELSE Pending]]
               /\ run' = [run EXCEPT ![r].steps = @ + (IF syncThrow THEN 1 ELSE 0)]
          [] call.this /\ call.node.unserializable ->
               \* line 811: JSON.stringify throws before the span is started
               /\ spans' = spans
               /\ step' = [step EXCEPT ![r] =
                    [base EXCEPT !.caller = Rejected(TypeError)]]
               /\ run' = [run EXCEPT ![r].steps = @ + 1]
          [] call.this /\ ~call.node.unserializable /\ syncThrow ->
               /\ spans' = Append(spans, thrown.span)
               /\ step' = [step EXCEPT ![r] =
                    [base EXCEPT !.span = sid, !.kind = spanKind, !.invoked = TRUE,
                                 !.recvOut = recv,
                                 !.argsOut = PassedStepArgs(argsIn),
                                 !.orig = Threw("Err1"),
                                 !.caller = thrown.settles]]
               /\ run' = [run EXCEPT ![r].steps = @ + 1]
          [] OTHER ->
               /\ spans' = Append(spans, started)
               /\ step' = [step EXCEPT ![r] =
                    [base EXCEPT !.pc = "awaiting", !.span = sid, !.kind = spanKind,
                                 !.invoked = TRUE, !.recvOut = recv,
                                 !.argsOut = PassedStepArgs(argsIn),
                                 !.orig = Pending, !.caller = Pending]]
               /\ run' = run
  /\ UNCHANGED guardVars
  /\ UNCHANGED pureVars
  /\ UNCHANGED processVars

\* The wrapped step call settles and the wrapper's continuation runs to
\* its end.
StepSettle(r, outcome) ==
  /\ step[r].pc = "awaiting"
  /\ LET done == StepCompletion(cfg, spans[step[r].span], outcome, step[r].kind)
     IN IF step[r].span = 0
        THEN /\ spans' = spans
             /\ step' = [step EXCEPT ![r] =
                  [@ EXCEPT !.pc = "idle", !.orig = outcome, !.caller = outcome]]
        ELSE /\ spans' = [spans EXCEPT ![step[r].span] = done.span]
             /\ step' = [step EXCEPT ![r] =
                  [@ EXCEPT !.pc = "idle", !.orig = outcome, !.caller = done.settles]]
  /\ run' = [run EXCEPT ![r].steps = @ + 1]
  /\ UNCHANGED guardVars
  /\ UNCHANGED pureVars
  /\ UNCHANGED processVars

\* ------------------------------------------------------------------------
\* Inbound requests (spans created by the HTTP auto-instrumentation)
\* ------------------------------------------------------------------------
HttpSpans == {s \in 1..Len(spans) : spans[s].origin = "http"}

\* A request arrives: the auto-instrumentation starts a server span.
HttpRequest ==
  /\ SdkStarted
  /\ AutoInstrumented
  /\ Cardinality(HttpSpans) < MaxHttp
  /\ Len(spans) < MaxSpans
  /\ spans' = Append(spans, NewSpan("http", 0, S_POST, 0, ("http.method" :> S_POST)))
  /\ UNCHANGED <<run, step>>
  /\ UNCHANGED guardVars
  /\ UNCHANGED pureVars
  /\ UNCHANGED processVars

\* The response is sent: the auto-instrumentation ends the server span.
HttpEnd(s) ==
  /\ s \in HttpSpans
  /\ spans[s].ends = 0
  /\ spans' = [spans EXCEPT ![s] = endSpan(@)]
  /\ UNCHANGED <<run, step>>
  /\ UNCHANGED guardVars
  /\ UNCHANGED pureVars
  /\ UNCHANGED processVars

\* ------------------------------------------------------------------------
\* The state machine
\* ------------------------------------------------------------------------
Init ==
  /\ globalFlag = FALSE
  /\ envFlag = FALSE
  /\ processFlag = FALSE
  /\ loads = 0
  /\ wrapDepth = [e \in EntryPoints |-> 0]
  /\ initLog = <<>>
  /\ cfg = DefaultConfig
  /\ spans = <<>>
  /\ run = [r \in Runs |-> IdleRun]
  /\ step = [r \in Runs |-> IdleStep]
  /\ ClassifyIdle
  /\ PayloadIdle
  /\ FlattenIdle
  /\ ExtractIdle
  /\ ProcessIdle

\* One workflow run at a time, with every input considered.
Next ==
  \/ \E boot \in Boots : Load(boot)
  \/ HttpRequest
  \/ \E s \in 1..Len(spans) : HttpEnd(s)
  \/ \E call \in RunCalls, callerSpan \in 0..Len(spans),
        behaviour \in RunBehaviours, e \in ErrorValues :
       StartRun(1, call, callerSpan, behaviour, e)
  \/ \E call \in StepCalls, syncThrow \in BOOLEAN : StartStep(1, call, syncThrow)
  \/ \E outcome \in StepOutcomes : StepSettle(1, outcome)
  \/ \E outcome \in RunOutcomes : RunSettle(1, outcome)
  \/ RunThen(1)
  \/ RunFinally(1)

Spec == Init /\ [][Next]_vars

\* ------------------------------------------------------------------------
\* Several workflow runs in flight, their continuations interleaving
\* ------------------------------------------------------------------------
\* the inputs of the interleaved runs: one invocation shape, and a wrapped
\* call that resolves or rejects
ConcurrentRunCalls == {[recv |-> Receiver(1, <<>>, <<>>, S_42), wf |-> WfDemo, nargs |-> 1]}

ConcurrentRunOutcomes ==
  { [o |-> Resolved("result"), result |-> WorkflowResult(Undefined, "one")],
    [o |-> Rejected("Err1"), result |-> NoResult] }

ConcurrentStepCalls ==
  { [this |-> TRUE, node |-> Node(S_AI_Agent, JsString(Id_OpenAi), Undefined, FALSE),
     input |-> "one", ad |-> AdditionalData(S_42, S_42), nargs |-> 7] }

ConcurrentStepOutcomes == {Resolved("one"), Rejected("Err1")}

NextConcurrent ==
  \/ Load(DefaultBoot)
  \/ HttpRequest
  \/ \E s \in 1..Len(spans) : HttpEnd(s)
  \/ \E r \in Runs, call \in ConcurrentRunCalls, callerSpan \in 0..Len(spans) :
       StartRun(r, call, callerSpan, "promise", "Err1")
  \/ \E r \in Runs, call \in ConcurrentStepCalls : StartStep(r, call, FALSE)
  \/ \E r \in Runs, outcome \in ConcurrentStepOutcomes : StepSettle(r, outcome)
  \/ \E r \in Runs, outcome \in ConcurrentRunOutcomes : RunSettle(r, outcome)
  \/ \E r \in Runs : RunThen(r)
  \/ \E r \in Runs : RunFinally(r)

SpecConcurrent == Init /\ [][NextConcurrent]_vars

\* ------------------------------------------------------------------------
\* Spans created by other instrumentation while a workflow run is under way
\* ------------------------------------------------------------------------
\* the callback of startActiveSpan run without the span being made active:
\* the caller's context stays the active one
StepContext_CallerContext(callerContext, span) == callerContext

\* line 856: tracer.startActiveSpan(name, options, fn) runs fn, and every
\* continuation created while it runs, with the new span as the active span
StepContext(callerContext, span) == span

\* the span that is active where the code of run r is executing: inside the
\* wrapped step call while it is awaited, in the engine's own continuation
\* otherwise
ActiveSpanOf(r) ==
  IF step[r].pc = "awaiting" /\ step[r].span # 0
  THEN StepContext(run[r].ctx, step[r].span)
  ELSE run[r].ctx

\* The LangChain instrumentation (lines 312-335), or any instrumented
\* library, starts a span in the course of run r: its parent is the span
\* that is active there.
SubNodeSpan(r) ==
  /\ SdkStarted
  /\ run[r].pc = "running"
  /\ Len(spans) < MaxSpans
  /\ spans' = Append(spans, NewSpan("sub", r, S_AI_Agent, ActiveSpanOf(r),
                                    ("openinference.span.kind" :> "LLM")))
  /\ UNCHANGED <<run, step>>
  /\ UNCHANGED guardVars
  /\ UNCHANGED pureVars
  /\ UNCHANGED processVars

NextNested ==
  \/ NextConcurrent
  \/ \E r \in Runs : SubNodeSpan(r)

SpecNested == Init /\ [][NextNested]_vars

\* ------------------------------------------------------------------------
\* Several workflow runs, of different workflows, under the same parent
\* ------------------------------------------------------------------------
NextShared ==
  \/ Load(DefaultBoot)
  \/ HttpRequest
  \/ \E s \in 1..Len(spans) : HttpEnd(s)
  \/ \E r \in Runs, call \in RunCalls, callerSpan \in 0..Len(spans) :
       StartRun(r, call, callerSpan, "promise", "Err1")
  \/ \E r \in Runs, outcome \in ConcurrentRunOutcomes : RunSettle(r, outcome)
  \/ \E r \in Runs : RunThen(r)
  \/ \E r \in Runs : RunFinally(r)

SpecShared == Init /\ [][NextShared]_vars

\* ------------------------------------------------------------------------
\* A parent span that cannot be renamed
\* ------------------------------------------------------------------------
ForeignSpans == {s \in 1..Len(spans) : spans[s].origin = "foreign"}

\* A request is traced by another tracer implementation registered with the
\* same context manager: the active span is named after the verb, exposes
\* no attributes, and has no updateName.
ForeignRequest ==
  /\ SdkStarted
  /\ Cardinality(ForeignSpans) < MaxHttp
  /\ Len(spans) < MaxSpans
  /\ spans' = Append(spans, NewSpan("foreign", 0, S_POST, 0, <<>>))
  /\ UNCHANGED <<run, step>>
  /\ UNCHANGED guardVars
  /\ UNCHANGED pureVars
  /\ UNCHANGED processVars

\* The other tracer ends its span.
ForeignEnd(s) ==
  /\ s \in ForeignSpans
  /\ spans[s].ends = 0
  /\ spans' = [spans EXCEPT ![s] = endSpan(@)]
  /\ UNCHANGED <<run, step>>
  /\ UNCHANGED guardVars
  /\ UNCHANGED pureVars
  /\ UNCHANGED processVars

NextForeign ==
  \/ \E boot \in Boots : Load(boot)
  \/ ForeignRequest
  \/ \E s \in 1..Len(spans) : ForeignEnd(s)
  \/ \E r \in Runs, call \in RunCalls, callerSpan \in 0..Len(spans),
        behaviour \in RunBehaviours, e \in ErrorValues :
       StartRun(r, call, callerSpan, behaviour, e)
  \/ \E r \in Runs, outcome \in ConcurrentRunOutcomes : RunSettle(r, outcome)
  \/ \E r \in Runs : RunThen(r)
  \/ \E r \in Runs : RunFinally(r)

SpecForeign == Init /\ [][NextForeign]_vars

\* ------------------------------------------------------------------------
\* Workflow runs started by the steps of another run (sub-workflows), by
\* nodes of every display name considered
\* ------------------------------------------------------------------------
NextSubWorkflow ==
  \/ Load(DefaultBoot)
  \/ \E r \in Runs, call \in ConcurrentRunCalls, callerSpan \in 0..Len(spans) :
       StartRun(r, call, callerSpan, "promise", "Err1")
  \/ \E r \in Runs, call \in StepCalls : StartStep(r, call, FALSE)
  \/ \E r \in Runs, outcome \in ConcurrentStepOutcomes : StepSettle(r, outcome)
  \/ \E r \in Runs, outcome \in ConcurrentRunOutcomes : RunSettle(r, outcome)
  \/ \E r \in Runs : RunThen(r)
  \/ \E r \in Runs : RunFinally(r)

SpecSubWorkflow == Init /\ [][NextSubWorkflow]_vars

\* ------------------------------------------------------------------------
\* Workflow runs whose result holds the runs of several nodes
\* ------------------------------------------------------------------------
\* the settlements considered: results of every shape, with and without an
\* engine-reported error, and a rejection
LoggedRunOutcomes ==
  {[o |-> Resolved("result"), result |-> WorkflowResult(e, out)] :
      e \in {Undefined, "Err1"}, out \in {"one", "several", "malformed", "none"}}
  \cup {[o |-> Rejected("Err1"), result |-> NoResult]}

NextLogged ==
  \/ \E boot \in Boots : Load(boot)
  \/ \E r \in Runs, call \in RunCalls, callerSpan \in 0..Len(spans) :
       StartRun(r, call, callerSpan, "promise", "Err1")
  \/ \E r \in Runs, outcome \in LoggedRunOutcomes : RunSettle(r, outcome)
  \/ \E r \in Runs : RunThen(r)
  \/ \E r \in Runs : RunFinally(r)

SpecLogged == Init /\ [][NextLogged]_vars

\* ------------------------------------------------------------------------
\* Steps of a language-model node and of another node, with inputs and
\* results that hold, or do not hold, a conventional message field
\* ------------------------------------------------------------------------
MessageStepCalls ==
  { [this |-> TRUE, node |-> Node(S_AI_Agent, JsString(type), Undefined, FALSE),
     input |-> input, ad |-> AdditionalData(S_42, S_42), nargs |-> 7] :
      type \in {Id_OpenAi, Id_UnknownCustomNode123},
      input \in {"one", "plain", "malformed", "none"} }

MessageStepOutcomes ==
  {Resolved(res) : res \in {"one", "plain", "malformed"}} \cup {Rejected("Err1")}

NextMessages ==
  \/ \E boot \in Boots : Load(boot)
  \/ \E call \in ConcurrentRunCalls, callerSpan \in 0..Len(spans) :
       StartRun(1, call, callerSpan, "promise", "Err1")
  \/ \E call \in MessageStepCalls : StartStep(1, call, FALSE)
  \/ \E outcome \in MessageStepOutcomes : StepSettle(1, outcome)
  \/ \E outcome \in ConcurrentRunOutcomes : RunSettle(1, outcome)
  \/ RunThen(1)
  \/ RunFinally(1)

SpecMessages == Init /\ [][NextMessages]_vars

\* ------------------------------------------------------------------------
\* The classifier applied to every input of a bounded set
\* ------------------------------------------------------------------------
IdAlphabet == {"l", "m", "a", "T"}

\* all strings over IdAlphabet of length at most n
RECURSIVE StringsUpTo(_)
StringsUpTo(n) ==
  IF n = 0 THEN {<<>>}
  ELSE LET shorter == StringsUpTo(n - 1)
       IN shorter \cup {Append(s, c) : s \in shorter, c \in IdAlphabet}

ExactIdentifiers == UNION {EXACT_SETS[i].set : i \in 1..Len(EXACT_SETS)}

ExampleIdentifiers ==
  { Id_chatTrigger, Id_ManualTrigger, Id_UnknownCustomNode123, Id_HttpRequest,
    Id_If, Id_Schedule, Id_Cron, Id_Set, Id_MyTOOL, Id_mytool, Id_Slack,
    Id_ChatTriggerAgent }

\* the table identifiers in another letter case
RecasedExactIdentifiers == {ToLowerCase(s) : s \in ExactIdentifiers}

\* the word w with its first letter, or all letters, in upper case
ToUpperChar(c) ==
  IF IsLowerLetter(c)
  THEN UpperLetters[CHOOSE i \in 1..26 : LowerLetters[i] = c]
  ELSE c

CaseVariants(w) ==
  { w,
    [i \in 1..Len(w) |-> ToUpperChar(w[i])],
    [i \in 1..Len(w) |-> IF i = 1 THEN ToUpperChar(w[i]) ELSE w[i]] }

\* identifiers holding the word `trigger` and a word of the LLM rule, in
\* either order and in several letter cases, with and without padding
LlmWords ==
  {W_lmchat, W_chat, W_openai, W_anthropic, W_gemini, W_mistral, W_groq, W_cohere,
   W_lm \o <<"x">>}

IdPads == {<<>>, <<"a">>, <<"_">>}

TriggerLlmIdentifiers ==
  UNION { {p \o a \o q \o b, p \o b \o q \o a} :
            <<a, b, p, q>> \in CaseVariants(W_trigger)
                                \X (UNION {CaseVariants(w) : w \in LlmWords})
                                \X IdPads \X IdPads }

\* the step-type inputs: absent, null, a number, an object, and strings
NodeTypeInputs ==
  {JsUndefined, JsNull, JsNumber, JsObject}
  \cup {JsString(s) : s \in StringsUpTo(MaxIdLen)}
  \cup {JsString(s) : s \in ExactIdentifiers \cup ExampleIdentifiers}
  \cup {JsString(s) : s \in RecasedExactIdentifiers \cup TriggerLlmIdentifiers}

Categories ==
  {"Trigger Nodes", "Transform Nodes", "AI/LangChain Nodes", "Core Nodes",
   "AI Nodes", ""}

\* the attribute bags: absent, null, empty, and maps with a category
AttrBagInputs ==
  { AttrBag("undefined", Undefined, Undefined),
    AttrBag("null", Undefined, Undefined),
    AttrBag("object", Undefined, Undefined) }
  \cup {AttrBag("object", c, Undefined) : c \in Categories}
  \cup {AttrBag("object", Undefined, c) : c \in Categories}

InitClassify ==
  /\ globalFlag = FALSE
  /\ envFlag = FALSE
  /\ processFlag = FALSE
  /\ loads = 0
  /\ wrapDepth = [e \in EntryPoints |-> 0]
  /\ initLog = <<>>
  /\ cfg = DefaultConfig
  /\ spans = <<>>
  /\ run = [r \in Runs |-> IdleRun]
  /\ step = [r \in Runs |-> IdleStep]
  /\ nodeTypeArg \in NodeTypeInputs
  /\ nodeAttrsArg \in AttrBagInputs
  /\ mapped = "pending"
  /\ PayloadIdle
  /\ FlattenIdle
  /\ ExtractIdle
  /\ ProcessIdle

\* mapNodeToSpanKind is called on the chosen arguments.
Classify ==
  /\ mapped = "pending"
  /\ mapped' = mapNodeToSpanKind(nodeTypeArg, nodeAttrsArg)
  /\ UNCHANGED <<nodeTypeArg, nodeAttrsArg>>
  /\ UNCHANGED guardVars
  /\ UNCHANGED traceVars
  /\ UNCHANGED payloadVars
  /\ UNCHANGED flattenVars
  /\ UNCHANGED extractVars
  /\ UNCHANGED processVars

NextClassify == Classify

SpecClassify == InitClassify /\ [][NextClassify]_vars

\* ------------------------------------------------------------------------
\* The classifier applied to identifiers that match several pattern rules
\* ------------------------------------------------------------------------
\* the words of the pattern rules; lmx stands for ^lm[a-z]
RuleWords ==
  { W_trigger, W_agent, W_embedding, W_retriev, W_vectorstore, W_rerank,
    W_lmchat, W_lm \o <<"x">>, W_chat, W_openai, W_anthropic, W_gemini, W_mistral,
    W_groq, W_cohere, W_tool, W_chain, W_textsplitter, W_parser, W_memory,
    W_workflow, W_classif, W_sentiment, W_extract, W_perspective, W_rekognition,
    W_moderation, W_guardrail }

\* the word with its first letter in upper case
Capitalized(w) == [i \in 1..Len(w) |-> IF i = 1 THEN ToUpperChar(w[i]) ELSE w[i]]

\* one word, and two words in either order, in lower case and capitalized
RuleOrderIdentifiers ==
  RuleWords
  \cup {a \o b : a \in RuleWords, b \in RuleWords}
  \cup {Capitalized(a) \o Capitalized(b) : a \in RuleWords, b \in RuleWords}
  \cup {Id_Slack, Id_If}

InitRuleOrder ==
  /\ globalFlag = FALSE
  /\ envFlag = FALSE
  /\ processFlag = FALSE
  /\ loads = 0
  /\ wrapDepth = [e \in EntryPoints |-> 0]
  /\ initLog = <<>>
  /\ cfg = DefaultConfig
  /\ spans = <<>>
  /\ run = [r \in Runs |-> IdleRun]
  /\ step = [r \in Runs |-> IdleStep]
  /\ nodeTypeArg \in {JsString(s) : s \in RuleOrderIdentifiers}
  /\ nodeAttrsArg \in { AttrBag("undefined", Undefined, Undefined),
                         AttrBag("object", "Core Nodes", Undefined),
                         AttrBag("object", Undefined, "Trigger Nodes") }
  /\ mapped = "pending"
  /\ PayloadIdle
  /\ FlattenIdle
  /\ ExtractIdle
  /\ ProcessIdle

SpecRuleOrder == InitRuleOrder /\ [][NextClassify]_vars

\* ------------------------------------------------------------------------
\* truncateIO applied to every input of a bounded set
\* ------------------------------------------------------------------------
MaxPayloadLen == 12

MaxCap == 2

\* the characters of the strings handed to truncateIO
PayloadAlphabet == {"a", "]"}

RECURSIVE PayloadStrings(_)
PayloadStrings(n) ==
  IF n = 0 THEN {<<>>}
  ELSE LET shorter == PayloadStrings(n - 1)
       IN shorter \cup {Append(str, c) : str \in shorter, c \in PayloadAlphabet}

\* the arguments: strings, and values that are not strings
PayloadInputs ==
  {JsString(str) : str \in PayloadStrings(MaxPayloadLen)}
  \cup {JsUndefined, JsNull, JsNumber, JsBoolean(TRUE), JsObject}

\* the values of MAX_IO_CHARS: small ones, and the default
Caps == (0..MaxCap) \cup {DefaultConfig.MAX_IO_CHARS}

InitPayload ==
  /\ globalFlag = FALSE
  /\ envFlag = FALSE
  /\ processFlag = FALSE
  /\ loads = 0
  /\ wrapDepth = [e \in EntryPoints |-> 0]
  /\ initLog = <<>>
  /\ cfg = DefaultConfig
  /\ spans = <<>>
  /\ run = [r \in Runs |-> IdleRun]
  /\ step = [r \in Runs |-> IdleStep]
  /\ ClassifyIdle
  /\ ioCap \in Caps
  /\ ioArg \in PayloadInputs
  /\ ioOut = [done |-> FALSE, s |-> <<>>]
  /\ FlattenIdle
  /\ ExtractIdle
  /\ ProcessIdle

\* truncateIO is called on the chosen argument.
Truncate ==
  /\ ~ioOut.done
  /\ ioOut' = [done |-> TRUE, s |-> truncateIO(ioCap, ioArg)]
  /\ UNCHANGED <<ioCap, ioArg>>
  /\ UNCHANGED guardVars
  /\ UNCHANGED traceVars
  /\ UNCHANGED classifyVars
  /\ UNCHANGED flattenVars
  /\ UNCHANGED extractVars
  /\ UNCHANGED processVars

NextPayload == Truncate

SpecPayload == InitPayload /\ [][NextPayload]_vars

\* ------------------------------------------------------------------------
\* A process started with or without the environment of an initialized one
\* ------------------------------------------------------------------------
\* process.env of a new process is a copy of its parent's unless the parent
\* passes another one: a child of a process that has initialized tracing
\* starts with __N8N_TRACING_INITIALIZED = 'true', while the properties of
\* global and of process are never inherited
InitInherited ==
  /\ globalFlag = FALSE
  /\ envFlag \in BOOLEAN
  /\ processFlag = FALSE
  /\ loads = 0
  /\ wrapDepth = [e \in EntryPoints |-> 0]
  /\ initLog = <<>>
  /\ cfg = DefaultConfig
  /\ spans = <<>>
  /\ run = [r \in Runs |-> IdleRun]
  /\ step = [r \in Runs |-> IdleStep]
  /\ ClassifyIdle
  /\ PayloadIdle
  /\ FlattenIdle
  /\ ExtractIdle
  /\ ProcessIdle

SpecInherited == InitInherited /\ [][Next]_vars

\* ------------------------------------------------------------------------
\* tracing.js: the process-level fault handlers set by setupWinstonLogger
\* ------------------------------------------------------------------------
MaxLog == 3

\* lines 523 and 539: process.on(...) has been called
HandlersInstalled == \E i \in 1..Len(initLog) : initLog[i] = "processHandlers"

\* the process is running (pc is "up" before any fault, "flushing" while
\* the handler awaits sdk.forceFlush(), "survived" after the handler ended
\* by a throw, "exited" after process.exit)
Alive == proc.pc # "exited"

\* lines 523-537 up to the await: an exception nobody caught reaches the
\* handler. active is the span of the context the exception was thrown in
\* (0 when there is none): the handler runs before that context is left.
\* Reading err.message of undefined (line 529) throws inside the async
\* handler; its promise rejects and nothing after that line runs.
UncaughtException(err, active) ==
  /\ proc.pc \in {"up", "survived"}
  /\ HandlersInstalled
  /\ Len(proc.log) < MaxLog
  /\ IF active # 0 /\ StatusMessageThrows(err)
     THEN /\ spans' = [spans EXCEPT ![active] = recordException(@, err)]
          /\ proc' = [proc EXCEPT !.pc = "survived",
                                  !.log = Append(@, "Uncaught Exception")]
     ELSE /\ spans' = IF active = 0 THEN spans
                      ELSE [spans EXCEPT ![active] =
                              setStatus(recordException(@, err), "ERROR")]
          /\ proc' = [proc EXCEPT !.pc = "flushing", !.flush = "pending",
                                  !.log = Append(@, "Uncaught Exception")]
  /\ UNCHANGED <<run, step>>
  /\ UNCHANGED guardVars
  /\ UNCHANGED pureVars

\* lines 531-536: sdk.forceFlush() settles (or threw), a failure is logged,
\* and process.exit(1) is called
FlushSettle(ok) ==
  /\ proc.pc = "flushing"
  /\ proc' = [proc EXCEPT !.pc = "exited", !.exitCode = 1,
                          !.flush = IF ok THEN "ok" ELSE "failed",
                          !.log = IF ok THEN @
                                  ELSE Append(@, "Error flushing telemetry data")]
  /\ UNCHANGED traceVars
  /\ UNCHANGED guardVars
  /\ UNCHANGED pureVars

\* lines 539-541: a promise rejected and nobody handles the rejection
UnhandledRejection ==
  /\ Alive
  /\ HandlersInstalled
  /\ Len(proc.log) < MaxLog
  /\ proc' = [proc EXCEPT !.log = Append(@, "Unhandled Promise Rejection")]
  /\ UNCHANGED traceVars
  /\ UNCHANGED guardVars
  /\ UNCHANGED pureVars

NextProcess ==
  \/ Alive /\ \E boot \in Boots : Load(boot)
  \/ Alive /\ HttpRequest
  \/ Alive /\ \E s \in 1..Len(spans) : HttpEnd(s)
  \/ \E err \in ErrorValues, active \in 0..Len(spans) : UncaughtException(err, active)
  \/ \E ok \in BOOLEAN : FlushSettle(ok)
  \/ UnhandledRejection

SpecProcess == Init /\ [][NextProcess]_vars

\* ------------------------------------------------------------------------
\* The settings of a workflow flattened, for every object of a bounded set
\* ------------------------------------------------------------------------
MaxSettingsDepth == 2

SettingsLeaves == {JsBoolean(TRUE), JsNumber, JsString(Txt.hi)}

\* the objects with the keys a and b, each absent or holding one of vals
ObjectsOver(vals) ==
  LET opt(k, x) == IF x = JsUndefined THEN <<>> ELSE <<Field(k, x)>>
  IN {JsRecord(opt(Key.a, x) \o opt(Key.b, y)) :
        x \in vals \cup {JsUndefined}, y \in vals \cup {JsUndefined}}

\* leaves, objects and one-element arrays nested at most d deep
RECURSIVE SettingsValues(_)
SettingsValues(d) ==
  IF d = 0 THEN SettingsLeaves
  ELSE LET below == SettingsValues(d - 1)
       IN below \cup ObjectsOver(below) \cup {JsArray(<<x>>) : x \in below}

SettingsInputs == ObjectsOver(SettingsValues(MaxSettingsDepth - 1))

InitFlatten ==
  /\ globalFlag = FALSE
  /\ envFlag = FALSE
  /\ processFlag = FALSE
  /\ loads = 0
  /\ wrapDepth = [e \in EntryPoints |-> 0]
  /\ initLog = <<>>
  /\ cfg = DefaultConfig
  /\ spans = <<>>
  /\ run = [r \in Runs |-> IdleRun]
  /\ step = [r \in Runs |-> IdleStep]
  /\ ClassifyIdle
  /\ PayloadIdle
  /\ ProcessIdle
  /\ ExtractIdle
  /\ settingsArg \in SettingsInputs
  /\ settingsFlat = [done |-> FALSE, attrs |-> <<>>]

\* the workflow attributes derived from the settings
Flatten ==
  /\ ~settingsFlat.done
  /\ settingsFlat' = [done |-> TRUE, attrs |-> FlattenSettings(settingsArg)]
  /\ UNCHANGED settingsArg
  /\ UNCHANGED guardVars
  /\ UNCHANGED traceVars
  /\ UNCHANGED classifyVars
  /\ UNCHANGED payloadVars
  /\ UNCHANGED extractVars
  /\ UNCHANGED processVars

NextFlatten == Flatten

SpecFlatten == InitFlatten /\ [][NextFlatten]_vars

\* ------------------------------------------------------------------------
\* The payload extractors applied to every value of a bounded set
\* ------------------------------------------------------------------------
\* how many connections a sequence of connections holds at most
MaxConnections == 2

\* by how many records the longest connection exceeds the cap of the output
MaxExtraRecords == 1

\* the record {a: 'n'}, and an item carrying it as its json
RecordNo(n) == JsRecord(<<Field(Key.a, JsString(DecimalChars(n)))>>)

ItemNo(n) == JsRecord(<<Field(Key.json, RecordNo(n))>>)

\* the connections (item-slots) considered: empty, one or two items in either
\* order, an item without json before one with, more items than the cap,
\* an absent connection, and a value that is not a sequence at all
ConnectionValues ==
  { JsArray(<<>>),
    JsArray(<<ItemNo(1)>>),
    JsArray(<<ItemNo(1), ItemNo(2)>>),
    JsArray(<<ItemNo(2), ItemNo(1)>>),
    JsArray(<<JsObject, ItemNo(3)>>),
    JsArray([i \in 1..(OutputItemCap + MaxExtraRecords) |-> ItemNo(i)]),
    JsNull,
    JsNumber }

RECURSIVE SeqsUpTo(_, _)
SeqsUpTo(S, n) ==
  IF n = 0 THEN {<<>>}
  ELSE LET shorter == SeqsUpTo(S, n - 1)
       IN shorter \cup {Append(q, x) : q \in {t \in shorter : Len(t) = n - 1}, x \in S}

ConnectionLists == {JsArray(q) : q \in SeqsUpTo(ConnectionValues, MaxConnections)}

\* the values of `data`: a sequence of connections, a mapping from connection
\* names to sequences of connections (main alone, another name alone, both
\* in either order), and values that are neither
DataValues ==
  ConnectionLists
  \cup {JsRecord(<<Field(Key.main, c)>>) : c \in ConnectionLists}
  \cup {JsRecord(<<Field(Key.ai_tool, c)>>) : c \in ConnectionLists}
  \cup {JsRecord(<<Field(Key.main, JsArray(<<c>>)), Field(Key.ai_tool, JsArray(<<d>>))>>) :
          c \in ConnectionValues, d \in ConnectionValues}
  \cup {JsRecord(<<Field(Key.ai_tool, JsArray(<<c>>)), Field(Key.main, JsArray(<<d>>))>>) :
          c \in ConnectionValues, d \in ConnectionValues}
  \cup {JsUndefined, JsNull, JsNumber, JsString(Txt.hi)}

\* executionData, or the result of a step: an object with a data field, no
\* value, or an object whose properties cannot be read
ExtractInputs ==
  {JsRecord(<<Field(Key.data, d)>>) : d \in DataValues}
  \cup {JsUndefined, [t |-> "throwing", v |-> <<>>]}

InitExtract ==
  /\ globalFlag = FALSE
  /\ envFlag = FALSE
  /\ processFlag = FALSE
  /\ loads = 0
  /\ wrapDepth = [e \in EntryPoints |-> 0]
  /\ initLog = <<>>
  /\ cfg = DefaultConfig
  /\ spans = <<>>
  /\ run = [r \in Runs |-> IdleRun]
  /\ step = [r \in Runs |-> IdleStep]
  /\ ClassifyIdle
  /\ PayloadIdle
  /\ FlattenIdle
  /\ ProcessIdle
  /\ extractArg \in ExtractInputs
  /\ extractOut = [by |-> "none", value |-> JsUndefined]

\* extractNodeInputFromExecutionData(executionData)
ExtractInput ==
  /\ extractOut.by = "none"
  /\ extractOut' = [by |-> "input",
                    value |-> IF extractArg.t = "throwing"
                              THEN ErrorRecord(Txt.objectObject)
                              ELSE extractNodeInputFromExecutionData(MainInputs(extractArg))]
  /\ UNCHANGED extractArg
  /\ UNCHANGED guardVars
  /\ UNCHANGED traceVars
  /\ UNCHANGED classifyVars
  /\ UNCHANGED payloadVars
  /\ UNCHANGED flattenVars
  /\ UNCHANGED processVars

\* extractNodeOutput(result)
ExtractOutput ==
  /\ extractOut.by = "none"
  /\ extractOut' = [by |-> "output", value |-> extractNodeOutput(extractArg)]
  /\ UNCHANGED extractArg
  /\ UNCHANGED guardVars
  /\ UNCHANGED traceVars
  /\ UNCHANGED classifyVars
  /\ UNCHANGED payloadVars
  /\ UNCHANGED flattenVars
  /\ UNCHANGED processVars

NextExtract ==
  \/ ExtractInput
  \/ ExtractOutput

SpecExtract == InitExtract /\ [][NextExtract]_vars

\* ------------------------------------------------------------------------
\* Properties
\* ------------------------------------------------------------------------
\* the wrapper invocation of run r has left every one of its paths
RunOver(r) == run[r].pc \in {"done", "threw"}

\* the last runNode invocation of run r is over and had started a span
StepOver(r) == step[r].pc = "idle" /\ step[r].span # 0

\* the outcome is a failure: a rejection or a synchronous throw
Failed(o) == o.k \in {"rejected", "threw"}

\* C1: every workflow span that was started is ended exactly once on every
\* exit path of the wrapped call, the synchronous throw and the non-promise
\* return included; it is never ended twice.
C1_WorkflowSpanEndedOnceOnEveryPath ==
  \A r \in Runs :
    /\ run[r].span # 0 => spans[run[r].span].ends <= 1
    /\ RunOver(r) => spans[run[r].span].ends = 1

\* C2: every step span is ended exactly once when the wrapped step call has
\* resolved, rejected or thrown, and is not ended while the call is awaited.
C2_StepSpanEndedExactlyOnce ==
  \A s \in 1..Len(spans) :
    spans[s].origin = "node" =>
      spans[s].ends =
        IF \E r \in Runs : step[r].pc = "awaiting" /\ step[r].span = s
        THEN 0 ELSE 1

\* a step span ended once after the wrapped call rejected and after the
\* input extraction had failed
C2_Witness ==
  \E r \in Runs :
    /\ StepOver(r)
    /\ step[r].orig.k = "rejected"
    /\ spans[step[r].span].ends = 1
    /\ HasAttr(spans[step[r].span], "input.value")
    /\ spans[step[r].span].attrs["input.value"] =
         safeJSONStringify(ErrorRecord(Txt.notIterableError))

\* C3: when a workflow span or a step span has ended, its status is OK if the
\* wrapped call reported no error and ERROR if it did.
C3_StatusAtEnd ==
  \A r \in Runs :
    /\ run[r].pc = "done" =>
         spans[run[r].span].status =
           IF Failed(run[r].settled) \/ run[r].result.error # Undefined
           THEN "ERROR" ELSE "OK"
    /\ StepOver(r) =>
         spans[step[r].span].status =
           IF Failed(step[r].orig) THEN "ERROR" ELSE "OK"

\* C4: when the wrapped step call fails with E, the step span carries status
\* ERROR and n8n.node.status = 'error', E is recorded on it unless E is
\* undefined, and the wrapper rejects with E itself.
C4_StepFailureReraisedUnchanged ==
  \A r \in Runs :
    (StepOver(r) /\ Failed(step[r].orig)) =>
      LET sp == spans[step[r].span]
          e == step[r].orig.err
      IN /\ step[r].caller = Rejected(e)
         /\ sp.status = "ERROR"
         /\ HasAttr(sp, "n8n.node.status")
         /\ sp.attrs["n8n.node.status"] = "error"
         /\ e # Undefined => \E i \in 1..Len(sp.exceptions) : sp.exceptions[i] = e

\* C5: whatever tracing-internal work fails, a finished invocation of the
\* step wrapper has invoked the wrapped call and settles as the wrapped call
\* did.
C5_StepOutcomeUntouched ==
  \A r \in Runs :
    (step[r].pc = "idle" /\ step[r].caller.k # "none") =>
      /\ step[r].invoked
      /\ Failed(step[r].caller) = Failed(step[r].orig)
      /\ step[r].caller.err = step[r].orig.err
      /\ step[r].caller.res = step[r].orig.res

\* C6: the parent of every step span is the workflow span of the run that
\* executed the step.
C6_StepParentIsOwnWorkflowSpan ==
  \A s \in 1..Len(spans) :
    spans[s].origin = "node" =>
      /\ spans[s].parent = run[spans[s].run].span
      /\ spans[s].parent # 0
      /\ spans[spans[s].parent].origin = "workflow"
      /\ spans[spans[s].parent].run = spans[s].run

\* two runs in flight whose spans were started alternately: the workflow
\* span of the second run was started after the first run's, and the first
\* run's step span after that
C6_Witness ==
  \E r1, r2 \in Runs :
    /\ r1 # r2
    /\ step[r1].span # 0
    /\ step[r2].span # 0
    /\ run[r1].span < run[r2].span
    /\ run[r2].span < step[r1].span
    /\ step[r1].span < step[r2].span
    /\ step[r1].pc = "awaiting"

\* C7: however often the module is loaded, no entry point carries more than
\* one wrapper, both carry exactly one once the wrappers were installed, and
\* a load after the first changes neither the entry points nor any span.
C7_LoadIdempotent ==
  /\ [](\A ep \in EntryPoints : wrapDepth[ep] <= 1)
  /\ []((\E i \in 1..Len(initLog) : initLog[i] = "wrappersInstalled")
          => \A ep \in EntryPoints : wrapDepth[ep] = 1)
  /\ [][(loads >= 1 /\ loads' = loads + 1)
          => UNCHANGED <<wrapDepth, cfg, initLog, spans, run, step>>]_vars

\* the module was loaded twice while a workflow span is in progress, and
\* each entry point carries one wrapper
C7_Witness ==
  /\ loads = 2
  /\ \A ep \in EntryPoints : wrapDepth[ep] = 1
  /\ \E r \in Runs : run[r].pc = "running" /\ spans[run[r].span].ends = 0

\* C8: both wrappers hand the wrapped function the receiver and the argument
\* list they were called with.
C8_ArgumentsPassedUnchanged ==
  \A r \in Runs :
    /\ run[r].pc # "idle" =>
         run[r].recvOut = run[r].recvIn /\ run[r].argsOut = run[r].argsIn
    /\ step[r].invoked =>
         step[r].recvOut = step[r].recvIn /\ step[r].argsOut = step[r].argsIn

\* C9: when the wrapped workflow run resolves with a result carrying an
\* engine-reported error, the caller's promise is resolved with that result,
\* and once the fulfilment callback has run the span has recorded the error
\* and has status ERROR.
C9_DomainErrorRecordedNotRaised ==
  \A r \in Runs :
    (run[r].settled.k = "resolved" /\ run[r].result.error # Undefined) =>
      /\ run[r].caller = Resolved("result")
      /\ run[r].pc \in {"handled", "done"} =>
           /\ spans[run[r].span].status = "ERROR"
           /\ \E i \in 1..Len(spans[run[r].span].exceptions) :
                spans[run[r].span].exceptions[i] = run[r].result.error

\* a finished run whose result carried an engine-reported error
C9_Witness ==
  \E r \in Runs :
    /\ run[r].pc = "done"
    /\ run[r].settled.k = "resolved"
    /\ run[r].result.error = "Err1"
    /\ spans[run[r].span].status = "ERROR"

\* C10: the classifier returns one of the ten span kinds or the no-match
\* value for every step type and attribute bag, it never throws, and a step
\* type that is absent or not a string yields no-match.
C10_ClassifierTotal ==
  mapped # "pending" =>
    /\ mapped \in SPAN_KINDS \cup {Undefined}
    /\ (nodeTypeArg.t # "string" => mapped = Undefined)

\* the classifier was applied to a number and a null attribute bag
C10_Witness ==
  /\ mapped = Undefined
  /\ nodeTypeArg = JsNumber
  /\ nodeAttrsArg.t = "null"

\* C11: an identifier listed in the exact-match table is classified as the
\* kind of the table entry holding it, whatever the pattern rules would
\* say; the lookup compares case-sensitively (an identifier that differs
\* from a table entry in letter case is not found in the table), and no
\* identifier is listed under two kinds.
C11_ExactTableWins ==
  /\ \A i, j \in 1..Len(EXACT_SETS) :
        i # j => EXACT_SETS[i].set \cap EXACT_SETS[j].set = {}
  /\ (mapped # "pending" /\ TypeOf(nodeTypeArg) = "string") =>
       /\ \A i \in 1..Len(EXACT_SETS) :
             nodeTypeArg.v \in EXACT_SETS[i].set => mapped = EXACT_SETS[i].kind
       /\ (nodeTypeArg.v \notin ExactIdentifiers
            /\ RegexKind(ToLowerCase(nodeTypeArg.v)) # Undefined) =>
             mapped = RegexKind(ToLowerCase(nodeTypeArg.v))

\* a table identifier that a pattern rule would classify differently has
\* been classified
C11_Witness ==
  /\ mapped # "pending"
  /\ TypeOf(nodeTypeArg) = "string"
  /\ nodeTypeArg.v \in ExactIdentifiers
  /\ RegexKind(ToLowerCase(nodeTypeArg.v)) \notin {Undefined, mapped}

\* C12: an identifier that matches the trigger pattern and the LLM pattern
\* is classified CHAIN, never LLM.
C12_TriggerBeforeLlm ==
  (/\ mapped # "pending"
   /\ TypeOf(nodeTypeArg) = "string"
   /\ AltMatches(Sub(W_trigger), ToLowerCase(nodeTypeArg.v))
   /\ \E a \in {Sub(W_lmchat), LmLetter, Sub(W_chat), Sub(W_openai),
                 Sub(W_anthropic), Sub(W_gemini), Sub(W_mistral),
                 Sub(W_groq), Sub(W_cohere)} :
         AltMatches(a, ToLowerCase(nodeTypeArg.v)))
  => mapped = "CHAIN"

\* an identifier holding TRIGGER and openai in mixed case has been classified
C12_Witness ==
  /\ mapped = "CHAIN"
  /\ TypeOf(nodeTypeArg) = "string"
  /\ nodeTypeArg.v = CHOOSE v \in TriggerLlmIdentifiers :
        /\ Len(v) = Len(W_trigger) + Len(W_openai) + 1
        /\ SubSeq(v, 1, 6) = <<"O", "P", "E", "N", "A", "I">>
        /\ v[7] = "_"
        /\ SubSeq(v, 8, 14) = W_trigger

\* the number written in decimal by `chars`, -1 when they are not digits
RECURSIVE ParseDecimal(_)
ParseDecimal(chars) ==
  IF chars = <<>> \/ chars[Len(chars)] \notin Digits THEN -1
  ELSE LET last == CHOOSE d \in 0..9 : DecimalChars(d) = <<chars[Len(chars)]>>
           front == SubSeq(chars, 1, Len(chars) - 1)
       IN IF front = <<>> THEN last
          ELSE IF ParseDecimal(front) < 0 THEN -1
          ELSE 10 * ParseDecimal(front) + last

\* C13: a string of length cap + k, k > 0, is returned as its first cap
\* characters followed by a suffix that states k as the number of elided
\* characters; a string of length at most cap is returned unchanged.
C13_Truncation ==
  (ioOut.done /\ ioArg.t = "string") =>
    LET n == Len(ioArg.v)
        suffix == SubSeq(ioOut.s, ioCap + 1, Len(ioOut.s))
        lo == Len(Txt.truncatedOpen)
        lc == Len(Txt.truncatedClose)
    IN IF n <= ioCap THEN ioOut.s = ioArg.v
       ELSE /\ Len(ioOut.s) > ioCap + lo + lc
            /\ SubSeq(ioOut.s, 1, ioCap) = SubSeq(ioArg.v, 1, ioCap)
            /\ SubSeq(suffix, 1, lo) = Txt.truncatedOpen
            /\ SubSeq(suffix, Len(suffix) - lc + 1, Len(suffix)) = Txt.truncatedClose
            /\ ParseDecimal(SubSeq(suffix, lo + 1, Len(suffix) - lc)) = n - ioCap

\* a string ten characters longer than a positive cap has been truncated
C13_Witness ==
  /\ ioOut.done
  /\ ioArg.t = "string"
  /\ ioCap > 0
  /\ Len(ioArg.v) = ioCap + 10
  /\ Len(ioOut.s) > ioCap

\* the payload attributes of a span
PayloadKeys == {"input.value", "output.value"}

\* C14: the length of every payload attached to a span as input.value or
\* output.value never exceeds the configured character cap. The code stores
\* the first cap characters followed by the marker, and attaches the
\* workflow's minimal input without cutting it.
C14_PayloadWithinCap ==
  \A s \in 1..Len(spans) : \A k \in PayloadKeys :
    (spans[s].origin \in {"workflow", "node"} /\ HasAttr(spans[s], k)) =>
      Len(spans[s].attrs[k]) <= cfg.MAX_IO_CHARS

\* does the string hay hold the string needle
Contains(hay, needle) ==
  \E i \in 0..(Len(hay) - Len(needle)) :
    SubSeq(hay, i + 1, i + Len(needle)) = needle

\* the step spans of run r
StepSpansOf(r) == {s \in 1..Len(spans) : spans[s].origin = "node" /\ spans[s].run = r}

\* run r is the scenario: under the default configuration, workflow wf1
\* named Demo has run its one step, of type OpenAi, which received the
\* record {prompt: 'hi'} and returned the record {response: 'hello'}
DemoScenario(r) ==
  /\ cfg = DefaultConfig
  /\ run[r].span # 0
  /\ spans[run[r].span].attrs["n8n.workflow.id"] = WfDemo.id
  /\ spans[run[r].span].attrs["n8n.workflow.name"] = WfDemo.name
  /\ run[r].steps = 1
  /\ StepOver(r)
  /\ HasAttr(spans[step[r].span], "n8n.node.type")
  /\ spans[step[r].span].attrs["n8n.node.type"] = Id_OpenAi
  /\ step[r].input = "one"
  /\ step[r].orig = Resolved("one")

\* C15: in the scenario there is one workflow span, named by the constant
\* policy and of kind CHAIN, and exactly one step span; the step span is the
\* child of the workflow span, has kind LLM, an input.value containing hi,
\* an output.value containing hello, and the assistant message content hello.
C15_DemoScenario ==
  \A r \in Runs :
    DemoScenario(r) =>
      LET wf == spans[run[r].span]
          node == spans[step[r].span]
      IN /\ wf.name = N_workflow_execute
         /\ wf.attrs["openinference.span.kind"] = "CHAIN"
         /\ Cardinality({s \in 1..Len(spans) :
                           spans[s].origin = "workflow" /\ spans[s].run = r}) = 1
         /\ StepSpansOf(r) = {step[r].span}
         /\ node.parent = run[r].span
         /\ node.attrs["openinference.span.kind"] = "LLM"
         /\ HasAttr(node, "input.value")
         /\ Contains(node.attrs["input.value"], Txt.hi)
         /\ HasAttr(node, "output.value")
         /\ Contains(node.attrs["output.value"], Txt.hello)
         /\ HasAttr(node, "llm.output_messages.0.message.content")
         /\ node.attrs["llm.output_messages.0.message.content"] = Txt.hello

\* the scenario has run to the end of the workflow run
C15_Witness ==
  \E r \in Runs : DemoScenario(r) /\ run[r].pc = "done"

\* what the classifier returns for the step a step span was started for,
\* read back from the span's n8n.node.type and n8n.node.category attributes
ClassifiedKind(sp) ==
  mapNodeToSpanKind(
    IF HasAttr(sp, "n8n.node.type") THEN JsString(sp.attrs["n8n.node.type"])
    ELSE JsUndefined,
    AttrBag("object",
            IF HasAttr(sp, "n8n.node.category") THEN sp.attrs["n8n.node.category"]
            ELSE Undefined,
            Undefined))

\* C16: the type UnknownCustomNode123 without a category classifies as no
\* match; and the kind attribute of every step span is CHAIN when
\* classification is disabled or returns no match, and the classifier's
\* result otherwise.
C16_StepKindDefaultsToChain ==
  /\ mapNodeToSpanKind(JsString(Id_UnknownCustomNode123),
                       AttrBag("object", Undefined, Undefined)) = Undefined
  /\ \A s \in 1..Len(spans) :
       spans[s].origin = "node" =>
         spans[s].attrs["openinference.span.kind"] =
           IF cfg.MAP_OPENINFERENCE_SPAN_KINDS /\ ClassifiedKind(spans[s]) # Undefined
           THEN ClassifiedKind(spans[s])
           ELSE "CHAIN"

\* a step span of kind CHAIN started, with classification enabled, for a
\* step of type UnknownCustomNode123 that has no category
C16_Witness ==
  \E s \in 1..Len(spans) :
    /\ spans[s].origin = "node"
    /\ cfg.MAP_OPENINFERENCE_SPAN_KINDS
    /\ HasAttr(spans[s], "n8n.node.type")
    /\ spans[s].attrs["n8n.node.type"] = Id_UnknownCustomNode123
    /\ ~HasAttr(spans[s], "n8n.node.category")
    /\ spans[s].attrs["openinference.span.kind"] = "CHAIN"

\* the leaves of a settings value with their paths: a leaf is a value that
\* is not an object or array with keys
RECURSIVE LeavesOf(_, _)
LeavesOf(x, path) ==
  IF ~IsNested(x) THEN {[path |-> path, val |-> x]}
  ELSE UNION {LeavesOf(Members(x)[i].val, Append(path, Members(x)[i].k)) :
                i \in 1..Len(Members(x))}

\* k1.k2...kn
RECURSIVE JoinPath(_)
JoinPath(path) ==
  IF Len(path) = 1 THEN path[1]
  ELSE path[1] \o <<".">> \o JoinPath(Tail(path))

\* C17: every leaf of the settings object, at path k1.k2...kn, is on the
\* workflow span under the one key n8n.workflow.settings.k1.k2...kn, with
\* its value. The code puts the prefix before every segment of the path.
C17_SettingsRoundTrip ==
  settingsFlat.done =>
    \A leaf \in UNION {LeavesOf(Members(settingsArg)[i].val, <<Members(settingsArg)[i].k>>) :
                         i \in 1..Len(Members(settingsArg))} :
      LET key == SettingsPrefix \o JoinPath(leaf.path)
      IN \E i \in 1..Len(settingsFlat.attrs) :
           settingsFlat.attrs[i].k = key /\ settingsFlat.attrs[i].val = leaf.val

\* how many entries of the process log are the text
LogCount(log, text) == Cardinality({i \in 1..Len(log) : log[i] = text})

\* C18: once an uncaught exception has reached the handler, a flush is under
\* way, or the process has exited with a non-zero status after the flush
\* completed or failed; and an unhandled rejection adds a log entry and
\* leaves the process running. The handler throws before the flush when the
\* exception is undefined and a span is active.
C18_FlushThenExit ==
  [][ /\ LogCount(proc'.log, "Uncaught Exception") > 0 =>
           \/ proc'.pc = "flushing" /\ proc'.flush = "pending"
           \/ /\ proc'.pc = "exited"
              /\ proc'.exitCode # 0
              /\ proc'.flush \in {"ok", "failed"}
      /\ LogCount(proc'.log, "Unhandled Promise Rejection")
           > LogCount(proc.log, "Unhandled Promise Rejection") =>
           /\ Len(proc'.log) = Len(proc.log) + 1
           /\ [proc' EXCEPT !.log = proc.log] = proc
           /\ Alive' ]_vars

\* the positions of a step in the initialization log
LogPositions(what) == {i \in 1..Len(initLog) : initLog[i] = what}

\* C19 as stated: the pipeline is set up and started before the two engine
\* entry points are replaced.
C19_PipelineBeforeWrappers ==
  \A i \in LogPositions("sdkStart"), j \in LogPositions("wrappersInstalled") : i < j

\* C19: during the first initialization the two engine entry points are
\* replaced by their instrumented versions before the exporter/collector
\* pipeline is set up and started.
C19_WrappersBeforePipeline ==
  \A i \in LogPositions("sdkStart"), j \in LogPositions("wrappersInstalled") : j < i

\* an initialization that replaced both entry points and started the SDK
C19_Witness ==
  /\ LogPositions("sdkStart") # {}
  /\ LogPositions("wrappersInstalled") # {}
  /\ \A e \in EntryPoints : wrapDepth[e] = 1

\* C20: the LangChain instrumentation is attempted only after the SDK has
\* been started; and when the attempt fails the initialization has still
\* completed, the wrappers that were installed are in place and the SDK is
\* started.
C20_LangchainAfterStartAndOptional ==
  /\ \A j \in LogPositions("langchain") \cup LogPositions("langchainFailed") :
       \E i \in LogPositions("sdkStart") : i < j
  /\ LogPositions("langchainFailed") # {} =>
       /\ SdkStarted
       /\ globalFlag /\ envFlag /\ processFlag
       /\ LogPositions("wrappersInstalled") # {} =>
            \A e \in EntryPoints : wrapDepth[e] >= 1

\* an initialization in which the LangChain library was absent, with both
\* entry points replaced and the SDK started
C20_Witness ==
  /\ LogPositions("langchainFailed") # {}
  /\ LogPositions("wrappersInstalled") # {}
  /\ \A e \in EntryPoints : wrapDepth[e] = 1
  /\ SdkStarted

\* C21: a process that has loaded the module has performed the
\* initialization on its first load, whatever environment it was started
\* with: the in-memory flags, which only the initializing branch sets, are
\* set. The guard also reads the inherited environment flag.
C21_FirstLoadInitializes ==
  loads >= 1 => globalFlag /\ processFlag

\* C22: every load leaves the three guard flags set, also when the
\* initialization it started threw part-way; and a load after the first
\* performs no initialization step and installs no wrapper.
C22_InitializationAttemptedOnce ==
  [][loads' = loads + 1 =>
       /\ globalFlag' /\ envFlag' /\ processFlag'
       /\ loads >= 1 => initLog' = initLog /\ wrapDepth' = wrapDepth]_vars

\* the module was loaded again after an initialization that threw part-way:
\* the wrappers were installed and the SDK was never started
C22_Witness ==
  /\ loads = 2
  /\ initLog # <<>>
  /\ ~SdkStarted
  /\ globalFlag /\ envFlag /\ processFlag

\* C23: with capture enabled, once the wrapped step call has been invoked
\* the step span carries the input payload (and, for an LLM step with a
\* prompt, the user message), also when the call threw at once; while the
\* call is pending the span carries no output payload; and after the call
\* the ended span carries the output payload exactly when the call resolved
\* with a result that has records.
C23_InputBeforeCallOutputAfter ==
  \A r \in Runs :
    (step[r].span # 0 /\ step[r].invoked) =>
      LET sp == spans[step[r].span]
          captured == cfg.CAPTURE_IO /\ step[r].input # "none"
      IN /\ HasAttr(sp, "input.value") <=> captured
         /\ HasAttr(sp, "llm.input_messages.0.message.content")
              <=> (captured /\ step[r].kind = "LLM" /\ step[r].input = "one")
         /\ step[r].pc = "awaiting" =>
              /\ ~HasAttr(sp, "output.value")
              /\ ~HasAttr(sp, "llm.output_messages.0.message.content")
              /\ sp.ends = 0
         /\ step[r].pc = "idle" =>
              /\ sp.ends = 1
              /\ HasAttr(sp, "output.value")
                   <=> (cfg.CAPTURE_IO /\ step[r].orig = Resolved("one"))

\* an LLM step resolved: its ended span carries the input payload, the user
\* message and the output payload
C23_Witness ==
  \E r \in Runs :
    /\ StepOver(r)
    /\ step[r].orig = Resolved("one")
    /\ step[r].kind = "LLM"
    /\ spans[step[r].span].ends = 1
    /\ HasAttr(spans[step[r].span], "llm.input_messages.0.message.content")
    /\ HasAttr(spans[step[r].span], "output.value")

\* C24: a span created in the course of a run while its wrapped step call
\* is awaited is a child of that step's span, and a span created in the
\* course of the run at any other time, in particular after the step has
\* completed, is a child of the run's workflow span.
C24_StepSpanActiveDuringStep ==
  [][\A r \in Runs :
       LET new == spans'[Len(spans')]
       IN (Len(spans') = Len(spans) + 1 /\ new.origin = "sub" /\ new.run = r) =>
            new.parent = IF step[r].pc = "awaiting" /\ step[r].span # 0
                         THEN step[r].span
                         ELSE run[r].span]_vars

\* one run with a span created inside its step, and a later span created
\* after that step completed, under the workflow span
C24_Witness ==
  \E a \in 1..Len(spans), b \in 1..Len(spans) :
    /\ a < b
    /\ spans[a].origin = "sub" /\ spans[b].origin = "sub"
    /\ spans[a].run = spans[b].run
    /\ spans[a].parent = step[spans[a].run].span
    /\ spans[spans[a].parent].origin = "node"
    /\ StepOver(spans[a].run)
    /\ spans[b].parent = run[spans[b].run].span
    /\ spans[spans[b].parent].origin = "workflow"

\* a workflow run has just been started under an open parent that looked
\* like an inbound-request span, with auto-instrumentation enabled: the
\* new workflow span is the last span and p is its parent
ReconciledStart(p) ==
  /\ Len(spans') = Len(spans) + 1
  /\ spans'[Len(spans')].origin = "workflow"
  /\ spans'[Len(spans')].parent = p
  /\ p \in 1..Len(spans)
  /\ spans[p].ends = 0
  /\ LooksLikeHttp(spans[p])
  /\ ~cfg.ONLY_WORKFLOW_SPANS

C26_CopyOnlyMissingKeys ==
  [][\A p \in 1..Len(spans) :
       ReconciledStart(p) =>
         LET before == spans[p].attrs
             after == spans'[p].attrs
             workflowAttributes == spans'[Len(spans')].attrs
         IN /\ \A k \in DOMAIN before \ {"n8n.http.original_name", "n8n.trace.naming"} :
                 k \in DOMAIN after /\ after[k] = before[k]
            /\ \A k \in DOMAIN workflowAttributes \ DOMAIN before :
                 k \in DOMAIN after /\ after[k] = workflowAttributes[k]
            /\ "n8n.http.original_name" \in DOMAIN after
            /\ after["n8n.http.original_name"] = spans[p].name]_vars

\* a request span that is the parent of two workflow runs with different
\* session identifiers, and still carries the first one's
C26_Witness ==
  \E a \in 1..Len(spans), b \in 1..Len(spans) :
    /\ a < b
    /\ spans[a].origin = "workflow" /\ spans[b].origin = "workflow"
    /\ spans[a].parent # 0
    /\ spans[a].parent = spans[b].parent
    /\ spans[spans[a].parent].origin = "http"
    /\ spans[a].attrs["session.id"] # spans[b].attrs["session.id"]
    /\ spans[spans[a].parent].attrs["session.id"] = spans[a].attrs["session.id"]

\* ------------------------------------------------------------------------
\* C27: a failure while renaming or annotating the parent never fails the
\* workflow run. Whenever a run is started under a request-like parent whose
\* updateName throws, the step that starts it also starts the workflow span
\* as a child of that parent and invokes the wrapped call with the caller's
\* receiver and arguments, and the caller holds what the wrapped call did:
\* its pending promise, or the error it threw itself; once the promise has
\* settled the caller holds exactly that settlement.
\* ------------------------------------------------------------------------
FailedReconcile(r) ==
  /\ run[r].span # 0
  /\ spans[run[r].span].parent # 0
  /\ RenameUnsupported(spans[spans[run[r].span].parent])
  /\ LooksLikeHttp(spans[spans[run[r].span].parent])
  /\ ~cfg.ONLY_WORKFLOW_SPANS

StartedDespiteFailure ==
  \A r \in Runs :
    (run[r].pc = "idle" /\ run'[r] # run[r]) =>
      \/ /\ Len(spans') = Len(spans) + 1
         /\ run'[r].span = Len(spans')
         /\ spans'[Len(spans')].origin = "workflow"
         /\ run'[r].recvOut = run'[r].recvIn
         /\ run'[r].argsOut = run'[r].argsIn
         /\ run'[r].recvOut # 0
      \/ \A p \in 1..Len(spans) : ~(RenameUnsupported(spans[p]) /\ spans[p].ends = 0)

CallerSeesOwnOutcome ==
  \A r \in Runs :
    FailedReconcile(r) =>
      /\ run[r].pc = "running" => run[r].caller = Pending
      /\ run[r].pc \in {"settled", "handled", "done"} => run[r].caller = run[r].settled

C27_ReconcileFailureHarmless ==
  []CallerSeesOwnOutcome /\ [][StartedDespiteFailure]_vars

C27_Witness ==
  \E r \in Runs :
    /\ FailedReconcile(r)
    /\ run[r].pc = "done"
    /\ run[r].caller = Resolved("result")
    /\ spans[spans[run[r].span].parent].name = S_POST
    /\ spans[run[r].span].ends = 1

\* ------------------------------------------------------------------------
\* C28: the workflow-run wrapper renames only externally-created spans. In
\* every step, a span created by the workflow-run wrapper or by the step-run
\* wrapper keeps its name, whatever that name is, and every span keeps the
\* parent it was created with.
\* ------------------------------------------------------------------------
C28_OwnSpansNeverRenamed ==
  [][\A s \in 1..Len(spans) :
       /\ spans'[s].parent = spans[s].parent
       /\ spans[s].origin \in {"workflow", "node"} => spans'[s].name = spans[s].name
    ]_vars

\* ------------------------------------------------------------------------
\* C29: the input extractor collects the records of every connection name of
\* the input-connections mapping. For a mapping whose every entry is a
\* sequence of item-slots (each a sequence of items, or absent), the value
\* returned is made of the records of all entries, in the order of the
\* entries, of their slots and of the items: nothing when there is none, the
\* record itself when there is one, the sequence otherwise.
\* ------------------------------------------------------------------------
\* the records (json) of the items of one slot, in order
SlotRecords(slot) ==
  IF slot.t # "array" THEN <<>>
  ELSE LET carrying == SelectSeq(slot.v, LAMBDA item : Truthy(GetField(item, Key.json)))
       IN [i \in 1..Len(carrying) |-> GetField(carrying[i], Key.json)]

\* the records of a sequence of slots, slot after slot
RECURSIVE FlatRecords(_)
FlatRecords(slots) ==
  IF slots = <<>> THEN <<>>
  ELSE FlatRecords(SubSeq(slots, 1, Len(slots) - 1)) \o SlotRecords(slots[Len(slots)])

\* the records of every entry of a mapping, entry after entry
RECURSIVE MappingRecords(_)
MappingRecords(fields) ==
  IF fields = <<>> THEN <<>>
  ELSE FlatRecords(Head(fields).val.v) \o MappingRecords(Tail(fields))

WellFormedMapping(data) ==
  /\ data.t = "object"
  /\ \A i \in 1..Len(data.v) :
       /\ data.v[i].val.t = "array"
       /\ \A j \in 1..Len(data.v[i].val.v) : data.v[i].val.v[j].t \in {"array", "null"}

C29_EveryConnectionCollected ==
  (/\ extractOut.by = "input"
   /\ extractArg.t = "object"
   /\ WellFormedMapping(GetField(extractArg, Key.data)))
  => LET all == MappingRecords(GetField(extractArg, Key.data).v)
     IN extractOut.value = CASE Len(all) = 0 -> JsUndefined
                             [] Len(all) = 1 -> all[1]
                             [] OTHER -> JsArray(all)

\* ------------------------------------------------------------------------
\* C30: for every shape of the step result the output extractor returns at
\* most 10 records, the first of the flattened sequence in order; a result
\* whose inspection raises an exception yields a record with the single
\* field _error holding a text. With no record at all nothing is returned.
\* ------------------------------------------------------------------------
\* the output connections of a result: data itself, or data.main
OutputSlots(result) ==
  LET data == GetField(result, Key.data)
  IN IF data.t = "array" THEN data.v
     ELSE IF GetField(data, Key.main).t = "array" THEN GetField(data, Key.main).v
     ELSE <<>>

C30_OutputCappedInOrder ==
  extractOut.by = "output" =>
    IF extractArg.t = "throwing"
    THEN /\ extractOut.value.t = "object"
         /\ Len(extractOut.value.v) = 1
         /\ extractOut.value.v[1].k = Key.x_error
         /\ extractOut.value.v[1].val.t = "string"
    ELSE LET all == FlatRecords(OutputSlots(extractArg))
             items == GetField(extractOut.value, Key.items)
         IN IF all = <<>> THEN extractOut.value = JsUndefined
            ELSE /\ items.t = "array"
                 /\ Len(items.v) <= OutputItemCap
                 /\ Len(items.v) = (IF Len(all) < OutputItemCap THEN Len(all)
                                    ELSE OutputItemCap)
                 /\ \A i \in 1..Len(items.v) : items.v[i] = all[i]

C30_Witness ==
  /\ extractOut.by = "output"
  /\ extractArg.t = "object"
  /\ Len(FlatRecords(OutputSlots(extractArg))) > OutputItemCap
  /\ GetField(GetField(extractArg, Key.data), Key.main).t = "array"
  /\ Len(GetField(extractOut.value, Key.items).v) = OutputItemCap
  /\ GetField(extractOut.value, Key.items).v[OutputItemCap] = RecordNo(OutputItemCap)

\* ------------------------------------------------------------------------
\* C31: in the workflow-run wrapper an identifier that is absent from every
\* probed location is derived as the literal 'unknown'. The workflow
\* identifier, the workflow name and the execution identifier carried by a
\* workflow span are therefore never the empty text: each is a value that
\* was supplied, or 'unknown'.
\* ------------------------------------------------------------------------
C31_AbsentIdentifierIsUnknown ==
  \A s \in 1..Len(spans) :
    spans[s].origin = "workflow" =>
      /\ spans[s].attrs["n8n.workflow.id"] # <<>>
      /\ spans[s].attrs["n8n.workflow.name"] # <<>>
      /\ spans[s].attrs["n8n.execution.id"] # <<>>

\* ------------------------------------------------------------------------
\* C32: with capture enabled, the output payload of the workflow span is
\* built only from the records of the last run of the step executed last:
\* once the fulfilment callback has run, output.value is the serialized
\* record of that run when the result names one (whatever other steps and
\* earlier runs the result holds) and is absent otherwise; and the span,
\* which carried no input payload, carries the minimal one holding the
\* workflow identifier and name.
\* ------------------------------------------------------------------------
C32_OutputFromLastRunOfLastStep ==
  \A r \in Runs :
    (/\ run[r].pc \in {"handled", "done"}
     /\ run[r].settled.k = "resolved"
     /\ cfg.CAPTURE_IO) =>
      LET sp == spans[run[r].span]
          lastRecord == JsRecord(<<Field(Key.response, JsString(Txt.hello))>>)
          minimal ==
            JsRecord(<<Field(Key.workflowId, JsString(sp.attrs["n8n.workflow.id"])),
                       Field(Key.workflowName, JsString(sp.attrs["n8n.workflow.name"]))>>)
      IN /\ IF run[r].result.out \in {"one", "several"}
            THEN /\ HasAttr(sp, "output.value")
                 /\ sp.attrs["output.value"] =
                      truncateIO(cfg.MAX_IO_CHARS, JsString(safeJSONStringify(lastRecord)))
            ELSE ~HasAttr(sp, "output.value")
         /\ HasAttr(sp, "input.value")
         /\ sp.attrs["input.value"] = safeJSONStringify(minimal)

C32_Witness ==
  \E r \in Runs :
    /\ run[r].pc = "done"
    /\ run[r].settled.k = "resolved"
    /\ run[r].result.out = "several"
    /\ cfg.CAPTURE_IO
    /\ HasAttr(spans[run[r].span], "output.value")
    /\ HasAttr(spans[run[r].span], "input.value")

\* ------------------------------------------------------------------------
\* C33: the synthesized message attributes are set only on step spans of
\* kind LLM. Once a step is over, its span carries the output message, with
\* role 'assistant' and the primary value as content, exactly when the kind
\* is LLM, capture is enabled, the wrapped call resolved and the first
\* record of its result holds a conventional output field; it carries the
\* input message, with role 'user', only when the kind is LLM, capture is
\* enabled and the first input record holds a conventional message field.
\* While the wrapped call is awaited there is no output message, and spans
\* that are not step spans never carry either.
\* ------------------------------------------------------------------------
MessageKeys(dir) ==
  IF dir = "input"
  THEN {"llm.input_messages.0.message.role", "llm.input_messages.0.message.content"}
  ELSE {"llm.output_messages.0.message.role", "llm.output_messages.0.message.content"}

\* the first of the records, when it holds a truthy field among keys
ConventionalField(records, keys) ==
  /\ records # <<>>
  /\ \E k \in keys : Truthy(GetField(records[1], k))

PrimaryDerived(res) ==
  ConventionalField(FlatRecords(OutputSlots(StepResultValue(res))),
                    {Key.output, Key.completion, Key.text, Key.result, Key.response})

UserFieldPresent(input) ==
  /\ StepInputData(input).t = "array"
  /\ ConventionalField(FlatRecords(StepInputData(input).v),
                       {Key.chatInput, Key.text, Key.prompt, Key.query})

C33_MessagesOnlyOnLlmSteps ==
  /\ \A s \in 1..Len(spans) :
       spans[s].origin # "node" =>
         \A k \in MessageKeys("input") \cup MessageKeys("output") : ~HasAttr(spans[s], k)
  /\ \A r \in Runs :
       step[r].span # 0 =>
         LET sp == spans[step[r].span]
             llm == sp.attrs["openinference.span.kind"] = "LLM"
         IN /\ \A k \in MessageKeys("input") :
                 HasAttr(sp, k) => llm /\ cfg.CAPTURE_IO /\ UserFieldPresent(step[r].input)
            /\ HasAttr(sp, "llm.input_messages.0.message.role") =>
                 sp.attrs["llm.input_messages.0.message.role"] = Txt.user
            /\ step[r].pc = "awaiting" =>
                 \A k \in MessageKeys("output") : ~HasAttr(sp, k)
            /\ step[r].pc = "idle" =>
                 /\ \A k \in MessageKeys("output") :
                      HasAttr(sp, k) <=> /\ llm
                                         /\ cfg.CAPTURE_IO
                                         /\ step[r].orig.k = "resolved"
                                         /\ PrimaryDerived(step[r].orig.res)
                 /\ HasAttr(sp, "llm.output_messages.0.message.role") =>
                      sp.attrs["llm.output_messages.0.message.role"] = Txt.assistant

C33_Witness ==
  \E r \in Runs :
    /\ step[r].span # 0
    /\ step[r].pc = "idle"
    /\ spans[step[r].span].attrs["openinference.span.kind"] = "LLM"
    /\ HasAttr(spans[step[r].span], "llm.output_messages.0.message.content")
    /\ spans[step[r].span].attrs["llm.output_messages.0.message.content"] = Txt.hello
    /\ HasAttr(spans[step[r].span], "llm.input_messages.0.message.content")

\* ------------------------------------------------------------------------
\* C34: the pattern rules are, in order, trigger (CHAIN), agent, embedding,
\* retriever, reranker, LLM, tool, generic chain, evaluator, guardrail. An
\* identifier that is not in the exact-match table and whose lower-cased
\* form matches at least one rule is classified as the kind of the first
\* matching rule in that order, whatever later rules match and whatever the
\* category attribute says.
\* ------------------------------------------------------------------------
ClaimedRuleKinds ==
  << "CHAIN", "AGENT", "EMBEDDING", "RETRIEVER", "RERANKER", "LLM", "TOOL",
     "CHAIN", "EVALUATOR", "GUARDRAIL" >>

\* the rules the lower-cased identifier matches
MatchingRules(id) ==
  {i \in 1..Len(REGEX_RULES) : RegexTest(REGEX_RULES[i], ToLowerCase(id))}

C34_FirstMatchingRuleWins ==
  /\ Len(REGEX_RULES) = Len(ClaimedRuleKinds)
  /\ Sub(W_trigger) \in REGEX_RULES[1].alts
  /\ Sub(W_chain) \in REGEX_RULES[8].alts
  /\ (/\ mapped # "pending"
      /\ TypeOf(nodeTypeArg) = "string"
      /\ nodeTypeArg.v \notin ExactIdentifiers
      /\ MatchingRules(nodeTypeArg.v) # {})
     => LET first == CHOOSE i \in MatchingRules(nodeTypeArg.v) :
                       \A j \in MatchingRules(nodeTypeArg.v) : i <= j
        IN /\ mapped = ClaimedRuleKinds[first]
           /\ REGEX_RULES[first].kind = ClaimedRuleKinds[first]

\* toolagent, in the category Core Nodes, has been classified: the agent
\* rule and the later tool rule match, and the category alone would say TOOL
C34_Witness ==
  /\ mapped = "AGENT"
  /\ nodeTypeArg = JsString(W_tool \o W_agent)
  /\ MatchingRules(nodeTypeArg.v) = {2, 7}
  /\ nodeAttrsArg.cat = "Core Nodes"

\* ------------------------------------------------------------------------
\* C35: in the category-fallback tier, reached when the identifier is in no
\* exact set and matches no pattern rule, the category decides. The
\* internal-logic identifiers are those of INTERNAL_LOGIC and the two
\* scheduling identifiers Schedule and Cron. The category is the attribute
\* n8n.node.category, or n8n.node.category_raw when the former is absent or
\* empty.
\* ------------------------------------------------------------------------
\* the tier is reached: a string in no exact set that matches no rule
CategoryTierReached ==
  /\ mapped # "pending"
  /\ TypeOf(nodeTypeArg) = "string"
  /\ Truthy(nodeTypeArg)
  /\ nodeTypeArg.v \notin ExactIdentifiers
  /\ MatchingRules(nodeTypeArg.v) = {}

\* nodeAttributes?.['n8n.node.category'] || nodeAttributes?.['n8n.node.category_raw']
CategoryRead ==
  IF nodeAttrsArg.t # "object" THEN Undefined
  ELSE IF nodeAttrsArg.cat \notin {Undefined, ""} THEN nodeAttrsArg.cat
  ELSE nodeAttrsArg.raw

\* the kind the tier yields when the categories in chainCategories map to
\* CHAIN
CategoryTierKind(chainCategories) ==
  IF CategoryRead \in chainCategories THEN "CHAIN"
  ELSE IF CategoryRead = "Core Nodes"
  THEN IF nodeTypeArg.v \in INTERNAL_LOGIC \cup {Id_Schedule, Id_Cron}
       THEN "CHAIN" ELSE "TOOL"
  ELSE Undefined

\* C35 as stated: Trigger Nodes, Transform Nodes and AI Nodes map to CHAIN
C35_CategoryTier ==
  CategoryTierReached =>
    mapped = CategoryTierKind({"Trigger Nodes", "Transform Nodes", "AI Nodes"})

\* C35 amended: Trigger Nodes, Transform Nodes and AI/LangChain Nodes map to
\* CHAIN; within Core Nodes an internal-logic identifier maps to CHAIN and
\* every other identifier to TOOL; any other or absent category, AI Nodes
\* included, yields no match
C35_CategoryTierLangChain ==
  CategoryTierReached =>
    mapped = CategoryTierKind({"Trigger Nodes", "Transform Nodes", "AI/LangChain Nodes"})

\* Slack with the category AI/LangChain Nodes under the raw key, and Cron in
\* Core Nodes, have been classified CHAIN
C35_Witness ==
  /\ CategoryTierReached
  /\ mapped = "CHAIN"
  /\ \/ nodeTypeArg.v = Id_Slack /\ nodeAttrsArg.raw = "AI/LangChain Nodes"
     \/ nodeTypeArg.v = Id_Cron /\ nodeAttrsArg.cat = "Core Nodes"

\* ------------------------------------------------------------------------
\* C36: the workflow-run wrapper hands back the promise the wrapped call
\* returned. While the promise is pending the caller holds a pending,
\* cancellable promise; once it has settled the caller holds exactly its
\* settlement (the same value, the same rejection reason) and still the
\* cancel method; and the wrapper's completion callbacks, whether they
\* succeed or throw, never change what the caller holds.
\* ------------------------------------------------------------------------
CallerHoldsWrappedPromise ==
  \A r \in Runs :
    /\ run[r].pc = "running" => run[r].caller = Pending /\ run[r].canCancel
    /\ run[r].pc \in {"settled", "handled", "done"} =>
         run[r].caller = run[r].settled /\ run[r].canCancel

CallbacksLeaveCallerAlone ==
  \A r \in Runs :
    run[r].pc \in {"settled", "handled"} =>
      /\ run'[r].caller = run[r].caller
      /\ run'[r].canCancel = run[r].canCancel

C36_CallerGetsWrappedPromise ==
  []CallerHoldsWrappedPromise /\ [][CallbacksLeaveCallerAlone]_vars

\* a run rejected without a reason is over: the rejection callback threw
\* while building the status message, and the caller holds the rejection
C36_Witness ==
  \E r \in Runs :
    /\ run[r].pc = "done"
    /\ run[r].settled = Rejected(Undefined)
    /\ run[r].caller = Rejected(Undefined)
    /\ run[r].canCancel
    /\ spans[run[r].span].status = "UNSET"

\* ------------------------------------------------------------------------
\* C37: when capture is disabled no workflow span, step span or renamed
\* parent span carries input.value, output.value, their mime types or a
\* synthesized message attribute, whatever runs and steps took place; and a
\* span that carries input.value (output.value) carries input.mime_type
\* (output.mime_type) with the value application/json.
\* ------------------------------------------------------------------------
PayloadAttributeKeys ==
  {"input.value", "input.mime_type", "output.value", "output.mime_type"}
  \cup MessageKeys("input") \cup MessageKeys("output")

C37_NoPayloadWhenCaptureDisabled ==
  \A s \in 1..Len(spans) :
    spans[s].origin \in {"workflow", "node", "http"} =>
      /\ ~cfg.CAPTURE_IO => \A k \in PayloadAttributeKeys : ~HasAttr(spans[s], k)
      /\ HasAttr(spans[s], "input.value") =>
           /\ HasAttr(spans[s], "input.mime_type")
           /\ spans[s].attrs["input.mime_type"] = "application/json"
      /\ HasAttr(spans[s], "output.value") =>
           /\ HasAttr(spans[s], "output.mime_type")
           /\ spans[s].attrs["output.mime_type"] = "application/json"

\* with capture disabled, a run under a renamed request span is over, and so
\* is its step, of kind LLM, which resolved with a record
C37_Witness ==
  /\ ~cfg.CAPTURE_IO
  /\ \E r \in Runs :
       /\ run[r].pc = "done"
       /\ run[r].settled.k = "resolved"
       /\ run[r].result.out = "one"
       /\ spans[run[r].span].parent # 0
       /\ spans[spans[run[r].span].parent].name = N_workflow_request
       /\ step[r].span # 0
       /\ step[r].pc = "idle"
       /\ step[r].orig = Resolved("one")
       /\ spans[step[r].span].attrs["openinference.span.kind"] = "LLM"

====
